---- MODULE Spec2Model ----
(***************************************************************************)
(* A state-machine model of the storage-and-recovery core of the BusTub    *)
(* teaching database (zhiyiYo/CMU15445): the clock replacer, the buffer    *)
(* pool manager, the linear-probe hash table, the log manager and the log  *)
(* recovery.  Every action is the translation of one method of the source; *)
(* the names of the source are kept.                                       *)
(***************************************************************************)
EXTENDS Integers, Sequences, FiniteSets, TLC

(***************************************************************************)
(* Bounds of the model.                                                    *)
(***************************************************************************)
PoolSize == 2      \* pool_size_: number of frames of the buffer pool
MaxPages == 3      \* page ids the disk manager hands out: 0 .. MaxPages-1
MaxData  == 1      \* page contents are the values 0 .. MaxData (0: zeroed)
MaxPin   == 2      \* cap on a frame's pin count
NumThreads == 2    \* threads that call the log manager
LOG_BUFFER_SIZE == 2   \* size of log_buffer_, in units of the smallest record
MaxRecSize == 2    \* a log record has size 1 .. MaxRecSize
MaxLsn == 3        \* cap on the LSNs handed out: 0 .. MaxLsn-1
BLOCK_ARRAY_SIZE == 2  \* slots of a hash table block page
MaxBlocks == 2     \* the hash table is built with 1 .. MaxBlocks block pages
NumKeys == 2       \* keys 0 .. NumKeys-1
NumValues == 2     \* values 0 .. NumValues-1
MaxHash == 3       \* the hash function has the values 0 .. MaxHash
MaxLeak == 2       \* cap on the pins and latches a call may leave behind
NumTxns == 2       \* transactions 0 .. NumTxns-1
NumTablePages == 2 \* table pages 0 .. NumTablePages-1, of one slot each
NumTuples == 2     \* tuple contents 1 .. NumTuples
MaxRecLsn == 6     \* the transactions write at most MaxRecLsn log records
MaxReplacer == 3   \* a replacer called directly has 1 .. MaxReplacer frames
BlockBytes == 2    \* a block page by itself has bitmaps of BlockBytes bytes
MaxLeft == 2       \* the left child of a join produces at most MaxLeft tuples
MaxRight == 2      \* the right child of a join produces at most MaxRight tuples
NumJoinVals == 2   \* join key values 0 .. NumJoinVals - 1

INVALID_PAGE_ID == -1
INVALID_LSN == -1
PAGE_SIZE == 4096
SIZE_TABLE_PAGE_HEADER == 12
SIZE_TUPLE == 4

Frames   == 0 .. (PoolSize - 1)
PageIds  == 0 .. (MaxPages - 1)
DataVals == 0 .. MaxData
Threads  == 1 .. NumThreads
RecSizes == 1 .. MaxRecSize
Keys     == 0 .. (NumKeys - 1)
Values   == 0 .. (NumValues - 1)
Buckets  == 0 .. (BLOCK_ARRAY_SIZE - 1)
Blocks   == 0 .. (MaxBlocks - 1)
Txns     == 0 .. (NumTxns - 1)
TablePages == 0 .. (NumTablePages - 1)
Tuples   == 1 .. NumTuples

VARIABLES
  \* ---- buffer pool manager (buffer_pool_manager.cpp) ----
  pages_,        \* frame -> [page_id_, pin_count_, is_dirty_, data_, lsn_, stamped]
                 \* (stamped: lsn_ was set from a log record, not by zeroing)
  page_table_,   \* page id -> frame, or -1 when the page is not resident
  free_list_,    \* sequence of free frames
  frames_,       \* replacer: frame -> [contains, ref]
  clock_hand_,   \* replacer: the clock hand
  disk,          \* data file: page id -> [data, lsn]
  next_page_id,  \* disk manager: the next page id AllocatePage returns
  bpm_pc,        \* "idle", or the fetch/new call that holds latch_ inside GetVictimFrameId
  bpm_ret,       \* what the last buffer pool call did and returned
  crashed,       \* the process was aborted by a failed assert
  \* ---- history (not program state): the checks follow either the values the
  \* calls return (observe, bpm_ret and log_ret are recorded) or the contents
  \* of one page, written by one client (watch is that page) ----
  watch,         \* the page id the client writes to
  observe,       \* bpm_ret and log_ret are recorded
  latest,        \* the bytes it last wrote to page watch
  tracked,       \* page watch exists and was only modified under the pin discipline
  pending,       \* page watch was modified since the last unpin_page(watch, true)
  candidates     \* replacer called directly: the frames unpinned and not since
                 \* pinned or selected by victim

bpmVars == <<pages_, page_table_, free_list_, frames_, clock_hand_, disk,
             next_page_id, bpm_pc, bpm_ret, crashed>>
histVars == <<watch, observe, candidates, latest, tracked, pending>>

VARIABLES
  \* ---- log manager (log_manager.cpp) ----
  enable_logging,      \* the global flag
  need_flush_,
  next_lsn_,
  persistent_lsn_,
  log_buffer_,         \* sequence of the records [lsn, size] in log_buffer_
  log_buffer_offset_,
  log_file,            \* the log file: sequence of the records written
  ft_pc,               \* flush thread: "none", "loop", "wait", "exited"
  thr,                 \* caller thread -> its position in AppendLogRecord / Flush
  stop_pc,             \* position of the thread in RunFlushThread / StopFlushThread
  stop_from,           \* history: next_lsn_ when StopFlushThread was called
  log_ret,             \* what the last log manager call returned
  handed               \* history: the LSNs in the order AppendLogRecord assigned them

logVars == <<enable_logging, need_flush_, next_lsn_, persistent_lsn_, log_buffer_,
             log_buffer_offset_, log_file, ft_pc, thr, stop_pc, stop_from, log_ret, handed>>

VARIABLES
  \* ---- linear probe hash table (linear_probe_hash_table.cpp) ----
  num_buckets,         \* constructor argument: the number of block pages
  hash_fn_,            \* constructor argument: key -> hash value
  ht_blocks,           \* block index -> block page [array_, occupied_, readable_]
  ht_latch,            \* block index -> latch of its page [readers, writer]
  ht_pin,              \* block index -> pin count of its page
  ht_hung,             \* the calling thread waits for a latch it will never get
  ht_ret,              \* what the last hash table call returned
  ht_abs,              \* history: pairs whose insert returned true and that no
                       \* remove that returned true has taken out
  num_blocks,          \* HashTableHeaderPage::NumBlocks() of the page header_page_id_
  table_latch_,        \* the latch of the table [readers, writer]
  ht_thr               \* thread -> its call when threads share the table
                       \* [pc, op, key, value, rd, ret]

htVars == <<num_buckets, hash_fn_, ht_blocks, ht_latch, ht_pin, ht_hung, ht_ret, ht_abs,
            num_blocks, table_latch_, ht_thr>>

VARIABLES
  \* ---- table pages, transactions and log recovery (log_recovery.cpp) ----
  tp_mem,              \* table page id -> the page in the buffer pool
                       \* [init, lsn, tuple, next_page_id]; a page has one slot,
                       \* tuple = [v, del]: v = 0 no tuple, del the delete mark
  tp_disk,             \* table page id -> the page in the data file
  tx,                  \* transaction -> [status, prev_lsn]
  tx_lock,             \* table page id -> the transaction that locked its tuple, or -1
  tx_before,           \* table page id -> the tuple when the lock was taken
  rec_pc,              \* "run", "crashed", "redone", "recovered", "redo_hung",
                       \* and in a second run "restarted", "redone_again",
                       \* "recovered_again"
  active_txn_,         \* LogRecovery: transaction -> its last LSN
  lsn_mapping_,        \* LogRecovery: LSN -> offset of the record in the log file
  offset_              \* LogRecovery: offset of the next buffer-full

recVars == <<tp_mem, tp_disk, tx, tx_lock, tx_before, rec_pc,
             active_txn_, lsn_mapping_, offset_>>

VARIABLES
  \* ---- a hash table block page by itself (hash_table_block_page.cpp) ----
  block_page,          \* [array_, occupied_, readable_]: the slots and the two
                       \* bitmaps, each a sequence of bytes
  block_ret,           \* what the last call on the page did and returned
  \* ---- the replacer called by several threads (clock_replacer.cpp) ----
  victim_pc,           \* thread -> its position in ClockReplacer::Victim: "idle",
                       \* "sized" (Size() returned > 0, line 29), "loop" (in the
                       \* while loop of line 34 with no frame to find)
  \* ---- the hash join executor (hash_join_executor.cpp) ----
  hj                   \* [pc, left, right, hv, built, tmp_page_id, free, tmp,
                       \*  cursor, out, ret]

extVars == <<block_page, block_ret, victim_pc, hj>>

(***************************************************************************)
(* Clock replacer (clock_replacer.cpp).                                    *)
(***************************************************************************)
\* ClockReplacer::Size: the number of contained frames.
Size(fr) == Cardinality({f \in DOMAIN fr : fr[f].contains})

\* The while (true) loop of ClockReplacer::Victim, entered with Size() > 0.
RECURSIVE VictimLoop(_, _)
VictimLoop(fr, hand) ==
  LET h == (hand + 1) % Cardinality(DOMAIN fr) IN
  IF fr[h].contains
    THEN IF fr[h].ref
           THEN VictimLoop([fr EXCEPT ![h].ref = FALSE], h)
           ELSE [found |-> TRUE, frame |-> h,
                 frames |-> [fr EXCEPT ![h].contains = FALSE], hand |-> h]
    ELSE VictimLoop(fr, h)

\* Victim with the hand put back before the first frame on every call.
VictimFromStart(fr, hand) ==
  IF Size(fr) = 0
    THEN [found |-> FALSE, frame |-> INVALID_PAGE_ID, frames |-> fr, hand |-> hand]
    ELSE VictimLoop(fr, -1)
\* ClockReplacer::Victim (after its assert).
Victim(fr, hand) ==
  IF Size(fr) = 0
    THEN [found |-> FALSE, frame |-> INVALID_PAGE_ID, frames |-> fr, hand |-> hand]
    ELSE VictimLoop(fr, hand)

\* Pin that leaves the frame contained.
PinRefOnly(fr, f) == [fr EXCEPT ![f].ref = FALSE]
\* ClockReplacer::Pin.
Pin(fr, f) == [fr EXCEPT ![f] = [contains |-> FALSE, ref |-> FALSE]]

\* ClockReplacer::Unpin.
Unpin(fr, f) == [fr EXCEPT ![f] = [contains |-> TRUE, ref |-> TRUE]]

(***************************************************************************)
(* Page and disk manager (declared in headers outside src/).               *)
(***************************************************************************)
\* Page::update(page_id, pin_count, is_dirty, reset_memory = false).
PageUpdate(pg, page_id, pin_count, is_dirty, reset_memory) ==
  [page_id_ |-> page_id, pin_count_ |-> pin_count, is_dirty_ |-> is_dirty,
   data_ |-> IF reset_memory THEN 0 ELSE pg.data_,
   lsn_  |-> IF reset_memory THEN 0 ELSE pg.lsn_,
   stamped |-> IF reset_memory THEN FALSE ELSE pg.stamped]

\* DiskManager::WritePage(page_id, data): the page bytes carry the page LSN.
WritePage(d, page_id, pg) ==
  IF page_id \in PageIds
    THEN [d EXCEPT ![page_id] = [data |-> pg.data_, lsn |-> pg.lsn_,
                                 stamped |-> pg.stamped]]
    ELSE d

\* DiskManager::ReadPage(page_id, data).
ReadPage(d, page_id, pg) ==
  [pg EXCEPT !.data_ = d[page_id].data, !.lsn_ = d[page_id].lsn,
             !.stamped = d[page_id].stamped]

(***************************************************************************)
(* Buffer pool manager (buffer_pool_manager.cpp).                          *)
(***************************************************************************)
IdlePc == [op |-> "idle", page |-> INVALID_PAGE_ID, frame |-> -1, stage |-> "none"]

\* The record of a call: op, the page id asked for (fetch, unpin, flush, delete)
\* or returned (new), and whether it succeeded (a page, or true, was returned).
BpmRet(op, page, ok) ==
  IF observe
    THEN [op |-> op, page |-> page, ok |-> ok]
    ELSE [op |-> "unobserved", page |-> INVALID_PAGE_ID, ok |-> TRUE]

\* page_table_.erase left out.
EraseNothing(pt, page_id) == pt
\* page_table_.erase(page_id)
Erase(pt, page_id) == [q \in PageIds |-> IF q = page_id THEN -1 ELSE pt[q]]

\* BufferPoolManager::GetVictimFrameId, lines 185-193 and 204: the frame, and
\* the free list and the replacer as the call leaves them.
GetVictimFrameId ==
  IF free_list_ # <<>>
    THEN [frame |-> Head(free_list_), free_list |-> Tail(free_list_),
          frames |-> frames_, hand |-> clock_hand_, from_replacer |-> FALSE]
    ELSE LET v == Victim(frames_, clock_hand_) IN
         [frame |-> IF v.found THEN v.frame ELSE INVALID_PAGE_ID,
          free_list |-> free_list_, frames |-> v.frames, hand |-> v.hand,
          from_replacer |-> v.found]

\* BufferPoolManager::GetVictimFrameId, lines 196-201: the log must be flushed first.
NeedsLogFlush(f) ==
  enable_logging /\ pages_[f].is_dirty_ /\ pages_[f].lsn_ > persistent_lsn_

\* FetchPageImpl, lines 59-73, on the frame f chosen, with the replacer as fr.
FetchInstall(page_id, f, fr) ==
  LET pg == pages_[f]
      d1 == IF pg.is_dirty_ THEN WritePage(disk, pg.page_id_, pg) ELSE disk
      pg1 == PageUpdate(ReadPage(d1, page_id, pg), page_id, 1, FALSE, FALSE)
  IN /\ disk' = d1
     /\ page_table_' = [Erase(page_table_, pg.page_id_) EXCEPT ![page_id] = f]
     /\ pages_' = [pages_ EXCEPT ![f] = pg1]
     /\ frames_' = Pin(fr, f)
     /\ bpm_ret' = BpmRet("fetch", page_id, TRUE)
     /\ UNCHANGED <<next_page_id, histVars, extVars>>

\* NewPageImpl, lines 133-144, on the frame f chosen, with the replacer as fr.
NewInstall(f, fr) ==
  LET pg == pages_[f]
      d1 == IF pg.is_dirty_ THEN WritePage(disk, pg.page_id_, pg) ELSE disk
      page_id == next_page_id
      pg1 == PageUpdate(pg, page_id, 1, TRUE, TRUE)
  IN /\ disk' = d1
     /\ next_page_id' = next_page_id + 1
     /\ page_table_' = [Erase(page_table_, pg.page_id_) EXCEPT ![page_id] = f]
     /\ pages_' = [pages_ EXCEPT ![f] = pg1]
     /\ frames_' = fr
     /\ bpm_ret' = BpmRet("new", page_id, TRUE)
     /\ latest' = IF page_id = watch THEN 0 ELSE latest
     /\ tracked' = IF page_id = watch THEN TRUE ELSE tracked
     /\ pending' = IF page_id = watch THEN FALSE ELSE pending
     /\ UNCHANGED <<watch, observe, extVars, candidates>>

\* A fetch or new call that took its frame from the replacer while logging is
\* enabled: it holds latch_ and goes on in GetVictimFrameId, line 196.
EnterVictim(op, page_id, v) ==
  /\ bpm_pc' = [op |-> op, page |-> page_id, frame |-> v.frame,
                stage |-> IF NeedsLogFlush(v.frame) THEN "flush" ELSE "write"]
  /\ free_list_' = v.free_list
  /\ frames_' = v.frames
  /\ clock_hand_' = v.hand
  /\ UNCHANGED <<pages_, page_table_, disk, next_page_id, bpm_ret, histVars, extVars>>

\* BufferPoolManager::FetchPageImpl(page_id)
FetchPageImpl(page_id) ==
  /\ ~crashed /\ bpm_pc = IdlePc
  /\ IF page_table_[page_id] # -1
       THEN LET f == page_table_[page_id] IN
            /\ pages_[f].pin_count_ < MaxPin
            /\ pages_' = [pages_ EXCEPT ![f].pin_count_ = @ + 1]
            /\ frames_' = IF pages_[f].pin_count_ = 0 THEN Pin(frames_, f) ELSE frames_
            /\ bpm_ret' = BpmRet("fetch", page_id, TRUE)
            /\ UNCHANGED <<page_table_, free_list_, clock_hand_, disk, next_page_id,
                           bpm_pc, histVars, extVars>>
       ELSE LET v == GetVictimFrameId IN
            IF v.frame = INVALID_PAGE_ID
              THEN /\ bpm_ret' = BpmRet("fetch", page_id, FALSE)
                   /\ UNCHANGED <<pages_, page_table_, free_list_, frames_, clock_hand_,
                                  disk, next_page_id, bpm_pc, histVars, extVars>>
              ELSE IF v.from_replacer /\ enable_logging
                     THEN EnterVictim("fetch", page_id, v)
                     ELSE /\ FetchInstall(page_id, v.frame, v.frames)
                          /\ free_list_' = v.free_list
                          /\ clock_hand_' = v.hand
                          /\ UNCHANGED bpm_pc
  /\ UNCHANGED <<crashed, logVars, htVars, recVars>>

\* NewPageImpl calling DiskManager::AllocatePage before it looks for a frame.
NewPageImplAllocFirst ==
  /\ ~crashed /\ bpm_pc = IdlePc
  /\ IF free_list_ = <<>> /\ Size(frames_) = 0
       THEN /\ bpm_ret' = BpmRet("new", INVALID_PAGE_ID, FALSE)
            /\ next_page_id' = IF next_page_id < MaxPages THEN next_page_id + 1
                                                          ELSE next_page_id
            /\ UNCHANGED <<pages_, page_table_, free_list_, frames_, clock_hand_,
                           disk, bpm_pc, histVars, extVars>>
       ELSE LET v == GetVictimFrameId IN
            /\ next_page_id < MaxPages
            /\ IF v.frame = INVALID_PAGE_ID
                 THEN /\ bpm_ret' = BpmRet("new", INVALID_PAGE_ID, FALSE)
                      /\ UNCHANGED <<pages_, page_table_, free_list_, frames_, clock_hand_,
                                     disk, next_page_id, bpm_pc, histVars, extVars>>
                 ELSE IF v.from_replacer /\ enable_logging
                        THEN EnterVictim("new", INVALID_PAGE_ID, v)
                        ELSE /\ NewInstall(v.frame, v.frames)
                             /\ free_list_' = v.free_list
                             /\ clock_hand_' = v.hand
                             /\ UNCHANGED bpm_pc
  /\ UNCHANGED <<crashed, logVars, htVars, recVars>>

\* BufferPoolManager::NewPageImpl(&page_id)
NewPageImpl ==
  /\ ~crashed /\ bpm_pc = IdlePc
  /\ IF free_list_ = <<>> /\ Size(frames_) = 0
       THEN /\ bpm_ret' = BpmRet("new", INVALID_PAGE_ID, FALSE)
            /\ UNCHANGED <<pages_, page_table_, free_list_, frames_, clock_hand_,
                           disk, next_page_id, bpm_pc, histVars, extVars>>
       ELSE LET v == GetVictimFrameId IN
            /\ next_page_id < MaxPages
            /\ IF v.frame = INVALID_PAGE_ID
                 THEN /\ bpm_ret' = BpmRet("new", INVALID_PAGE_ID, FALSE)
                      /\ UNCHANGED <<pages_, page_table_, free_list_, frames_, clock_hand_,
                                     disk, next_page_id, bpm_pc, histVars, extVars>>
                 ELSE IF v.from_replacer /\ enable_logging
                        THEN EnterVictim("new", INVALID_PAGE_ID, v)
                        ELSE /\ NewInstall(v.frame, v.frames)
                             /\ free_list_' = v.free_list
                             /\ clock_hand_' = v.hand
                             /\ UNCHANGED bpm_pc
  /\ UNCHANGED <<crashed, logVars, htVars, recVars>>

\* The rest of a fetch or new call whose GetVictimFrameId has returned.
EvictFinish ==
  /\ ~crashed /\ bpm_pc.stage = "write"
  /\ IF bpm_pc.op = "fetch"
       THEN FetchInstall(bpm_pc.page, bpm_pc.frame, frames_)
       ELSE NewInstall(bpm_pc.frame, frames_)
  /\ bpm_pc' = IdlePc
  /\ UNCHANGED <<free_list_, clock_hand_, crashed, logVars, htVars, recVars>>

\* UnpinPageImpl handing the frame to the replacer at every successful call.
UnpinPageImplAlways(page_id, is_dirty) ==
  /\ ~crashed /\ bpm_pc = IdlePc
  /\ IF page_table_[page_id] = -1 \/ pages_[page_table_[page_id]].pin_count_ <= 0
       THEN /\ bpm_ret' = BpmRet("unpin", page_id, FALSE)
            /\ UNCHANGED <<pages_, frames_, histVars, extVars>>
       ELSE LET f == page_table_[page_id]
                pin == pages_[f].pin_count_ - 1 IN
            /\ pages_' = [pages_ EXCEPT ![f].is_dirty_ = @ \/ is_dirty,
                                        ![f].pin_count_ = pin]
            /\ frames_' = Unpin(frames_, f)
            /\ bpm_ret' = BpmRet("unpin", page_id, TRUE)
            /\ pending' = IF page_id = watch /\ is_dirty THEN FALSE ELSE pending
            /\ tracked' = IF page_id = watch /\ ~is_dirty /\ pending /\ pin = 0
                            THEN FALSE ELSE tracked
            /\ UNCHANGED <<watch, observe, extVars, candidates, latest>>
  /\ UNCHANGED <<page_table_, free_list_, clock_hand_, disk, next_page_id, bpm_pc,
                 crashed, logVars, htVars, recVars>>

\* BufferPoolManager::UnpinPageImpl(page_id, is_dirty)
UnpinPageImpl(page_id, is_dirty) ==
  /\ ~crashed /\ bpm_pc = IdlePc
  /\ IF page_table_[page_id] = -1 \/ pages_[page_table_[page_id]].pin_count_ <= 0
       THEN /\ bpm_ret' = BpmRet("unpin", page_id, FALSE)
            /\ UNCHANGED <<pages_, frames_, histVars, extVars>>
       ELSE LET f == page_table_[page_id]
                pin == pages_[f].pin_count_ - 1 IN
            /\ pages_' = [pages_ EXCEPT ![f].is_dirty_ = @ \/ is_dirty,
                                        ![f].pin_count_ = pin]
            /\ frames_' = IF pin = 0 THEN Unpin(frames_, f) ELSE frames_
            /\ bpm_ret' = BpmRet("unpin", page_id, TRUE)
            /\ pending' = IF page_id = watch /\ is_dirty THEN FALSE ELSE pending
            /\ tracked' = IF page_id = watch /\ ~is_dirty /\ pending /\ pin = 0
                            THEN FALSE ELSE tracked
            /\ UNCHANGED <<watch, observe, extVars, candidates, latest>>
  /\ UNCHANGED <<page_table_, free_list_, clock_hand_, disk, next_page_id, bpm_pc,
                 crashed, logVars, htVars, recVars>>

\* BufferPoolManager::FlushPageImpl(page_id)
FlushPageImpl(page_id) ==
  /\ ~crashed /\ bpm_pc = IdlePc
  /\ IF page_table_[page_id] = -1
       THEN /\ bpm_ret' = BpmRet("flush", page_id, FALSE)
            /\ UNCHANGED <<pages_, disk>>
       ELSE LET f == page_table_[page_id] IN
            /\ disk' = IF pages_[f].is_dirty_ THEN WritePage(disk, page_id, pages_[f]) ELSE disk
            /\ pages_' = [pages_ EXCEPT ![f].is_dirty_ = FALSE]
            /\ bpm_ret' = BpmRet("flush", page_id, TRUE)
  /\ UNCHANGED <<page_table_, free_list_, frames_, clock_hand_, next_page_id, bpm_pc,
                 crashed, histVars, extVars, logVars, htVars, recVars>>

\* BufferPoolManager::DeletePageImpl(page_id).  Line 167 reads it->second after
\* page_table_.erase(page_id) (line 165) has destroyed the element it points
\* to: the frame put on the free list is what the freed node holds then, the
\* frame of the page or another one.
DeletePageImpl(page_id) ==
  /\ ~crashed /\ bpm_pc = IdlePc
  /\ IF page_table_[page_id] = -1
       THEN /\ bpm_ret' = BpmRet("delete", page_id, TRUE)
            /\ UNCHANGED <<pages_, page_table_, free_list_, histVars, extVars>>
       ELSE LET f == page_table_[page_id] IN
            IF pages_[f].pin_count_ > 0
              THEN /\ bpm_ret' = BpmRet("delete", page_id, FALSE)
                   /\ UNCHANGED <<pages_, page_table_, free_list_, histVars, extVars>>
              ELSE /\ page_table_' = Erase(page_table_, page_id)
                   /\ pages_' = [pages_ EXCEPT ![f] =
                                   PageUpdate(@, INVALID_PAGE_ID, 0, FALSE, TRUE)]
                   /\ \E g \in Frames : free_list_' = Append(free_list_, g)
                   /\ bpm_ret' = BpmRet("delete", page_id, TRUE)
                   /\ tracked' = IF page_id = watch THEN FALSE ELSE tracked
                   /\ UNCHANGED <<watch, observe, extVars, candidates, latest, pending>>
  /\ UNCHANGED <<frames_, clock_hand_, disk, next_page_id, bpm_pc,
                 crashed, logVars, htVars, recVars>>

\* The loop of FlushAllPagesImpl from frame i on, over the data file d and the frames pg.
RECURSIVE FlushAllFrom(_, _, _)
FlushAllFrom(i, d, pg) ==
  IF i >= PoolSize THEN [disk |-> d, pages |-> pg]
  ELSE IF pg[i].page_id_ # INVALID_PAGE_ID /\ pg[i].is_dirty_
         THEN FlushAllFrom(i + 1, WritePage(d, i, pg[i]), [pg EXCEPT ![i].is_dirty_ = FALSE])
         ELSE FlushAllFrom(i + 1, d, pg)

\* BufferPoolManager::FlushAllPagesImpl()
FlushAllPagesImpl ==
  /\ ~crashed /\ bpm_pc = IdlePc
  /\ LET r == FlushAllFrom(0, disk, pages_) IN
     /\ disk' = r.disk
     /\ pages_' = r.pages
  /\ bpm_ret' = BpmRet("flush_all", INVALID_PAGE_ID, TRUE)
  /\ UNCHANGED <<page_table_, free_list_, frames_, clock_hand_, next_page_id, bpm_pc,
                 crashed, histVars, extVars, logVars, htVars, recVars>>

\* The client holds a pin on page watch and writes the bytes d into the page.
WriteData(d) ==
  /\ ~crashed
  /\ watch \in PageIds
  /\ page_table_[watch] # -1
  /\ pages_[page_table_[watch]].pin_count_ > 0
  /\ pages_' = [pages_ EXCEPT ![page_table_[watch]].data_ = d]
  /\ latest' = d
  /\ pending' = TRUE
  /\ bpm_ret' = BpmRet("write", watch, TRUE)
  /\ UNCHANGED <<page_table_, free_list_, frames_, clock_hand_, disk, next_page_id,
                 bpm_pc, crashed, watch, observe, extVars, candidates, tracked, logVars, htVars, recVars>>

\* ClockReplacer::Victim, line 28: the assert reads *frame_id, which
\* GetVictimFrameId (line 185) leaves uninitialised: with a value outside
\* the frames the process aborts.
VictimAssertFails ==
  /\ ~crashed /\ bpm_pc = IdlePc
  /\ free_list_ = <<>>
  /\ crashed' = TRUE
  /\ bpm_ret' = BpmRet("abort", INVALID_PAGE_ID, FALSE)
  /\ UNCHANGED <<pages_, page_table_, free_list_, frames_, clock_hand_, disk,
                 next_page_id, bpm_pc, histVars, extVars, logVars, htVars, recVars>>

(***************************************************************************)
(* The replacer called directly, one call at a time.  bpm_ret records the  *)
(* call: the frame passed (pin, unpin) or returned (victim).               *)
(***************************************************************************)
\* ClockReplacer::Victim(&v): v is the value of *frame_id on entry, read by
\* the assert of line 28.
ReplacerVictim(v) ==
  /\ ~crashed /\ bpm_pc = IdlePc
  /\ IF v \notin DOMAIN frames_
       THEN /\ crashed' = TRUE
            /\ bpm_ret' = BpmRet("abort", INVALID_PAGE_ID, FALSE)
            /\ UNCHANGED <<frames_, clock_hand_, candidates>>
       ELSE LET r == Victim(frames_, clock_hand_) IN
            /\ frames_' = r.frames
            /\ clock_hand_' = r.hand
            /\ bpm_ret' = BpmRet("victim", r.frame, r.found)
            /\ candidates' = IF r.found THEN candidates \ {r.frame} ELSE candidates
            /\ UNCHANGED crashed
  /\ UNCHANGED <<pages_, page_table_, free_list_, disk, next_page_id, bpm_pc,
                 watch, observe, extVars, latest, tracked, pending, logVars, htVars, recVars>>

\* ClockReplacer::Pin(frame_id)
ReplacerPin(frame_id) ==
  /\ ~crashed /\ bpm_pc = IdlePc
  /\ IF frame_id \notin DOMAIN frames_
       THEN /\ crashed' = TRUE
            /\ bpm_ret' = BpmRet("abort", INVALID_PAGE_ID, FALSE)
            /\ UNCHANGED <<frames_, candidates>>
       ELSE /\ frames_' = Pin(frames_, frame_id)
            /\ bpm_ret' = BpmRet("pin", frame_id, TRUE)
            /\ candidates' = candidates \ {frame_id}
            /\ UNCHANGED crashed
  /\ UNCHANGED <<pages_, page_table_, free_list_, clock_hand_, disk, next_page_id, bpm_pc,
                 watch, observe, extVars, latest, tracked, pending, logVars, htVars, recVars>>

\* ClockReplacer::Unpin(frame_id)
ReplacerUnpin(frame_id) ==
  /\ ~crashed /\ bpm_pc = IdlePc
  /\ IF frame_id \notin DOMAIN frames_
       THEN /\ crashed' = TRUE
            /\ bpm_ret' = BpmRet("abort", INVALID_PAGE_ID, FALSE)
            /\ UNCHANGED <<frames_, candidates>>
       ELSE /\ frames_' = Unpin(frames_, frame_id)
            /\ bpm_ret' = BpmRet("unpin", frame_id, TRUE)
            /\ candidates' = candidates \cup {frame_id}
            /\ UNCHANGED crashed
  /\ UNCHANGED <<pages_, page_table_, free_list_, clock_hand_, disk, next_page_id, bpm_pc,
                 watch, observe, extVars, latest, tracked, pending, logVars, htVars, recVars>>
(***************************************************************************)
(* The replacer called by several threads.  What a call does while it      *)
(* holds mutex_ is one step; Victim takes mutex_ twice, shared inside      *)
(* Size() (line 29) and exclusive for its loop (line 33).  A thread in the *)
(* loop holds mutex_.                                                      *)
(***************************************************************************)
\* mutex_ can be taken: no thread is inside the loop of Victim.
MutexFree == \A t \in Threads : victim_pc[t] # "loop"

\* ClockReplacer::Victim, lines 28-31: the assert holds, Size() is called.
VictimSize(t) ==
  /\ ~crashed /\ bpm_pc = IdlePc
  /\ victim_pc[t] = "idle" /\ MutexFree
  /\ IF Size(frames_) = 0
       THEN /\ bpm_ret' = BpmRet("victim", INVALID_PAGE_ID, FALSE)
            /\ UNCHANGED victim_pc
       ELSE /\ victim_pc' = [victim_pc EXCEPT ![t] = "sized"]
            /\ UNCHANGED bpm_ret
  /\ UNCHANGED <<pages_, page_table_, free_list_, frames_, clock_hand_, disk, next_page_id,
                 bpm_pc, crashed, histVars, block_page, block_ret, hj, logVars, htVars, recVars>>

\* ClockReplacer::Victim, lines 33-46: the loop ends at a contained frame
\* whose ref is clear; without a contained frame it does not end.
VictimScan(t) ==
  /\ ~crashed /\ bpm_pc = IdlePc
  /\ victim_pc[t] = "sized" /\ MutexFree
  /\ IF Size(frames_) = 0
       THEN /\ victim_pc' = [victim_pc EXCEPT ![t] = "loop"]
            /\ UNCHANGED <<frames_, clock_hand_, bpm_ret>>
       ELSE LET r == VictimLoop(frames_, clock_hand_) IN
            /\ frames_' = r.frames
            /\ clock_hand_' = r.hand
            /\ bpm_ret' = BpmRet("victim", r.frame, frames_[r.frame].contains)
            /\ victim_pc' = [victim_pc EXCEPT ![t] = "idle"]
  /\ UNCHANGED <<pages_, page_table_, free_list_, disk, next_page_id,
                 bpm_pc, crashed, histVars, block_page, block_ret, hj, logVars, htVars, recVars>>

\* ClockReplacer::Pin(frame_id) and Unpin(frame_id) called by thread t.
ThreadPin(t, frame_id) ==
  /\ ~crashed /\ bpm_pc = IdlePc
  /\ frame_id \in DOMAIN frames_
  /\ victim_pc[t] = "idle" /\ MutexFree
  /\ frames_' = Pin(frames_, frame_id)
  /\ bpm_ret' = BpmRet("pin", frame_id, TRUE)
  /\ UNCHANGED <<pages_, page_table_, free_list_, clock_hand_, disk, next_page_id,
                 bpm_pc, crashed, histVars, extVars, logVars, htVars, recVars>>

ThreadUnpin(t, frame_id) ==
  /\ ~crashed /\ bpm_pc = IdlePc
  /\ frame_id \in DOMAIN frames_
  /\ victim_pc[t] = "idle" /\ MutexFree
  /\ frames_' = Unpin(frames_, frame_id)
  /\ bpm_ret' = BpmRet("unpin", frame_id, TRUE)
  /\ UNCHANGED <<pages_, page_table_, free_list_, clock_hand_, disk, next_page_id,
                 bpm_pc, crashed, histVars, extVars, logVars, htVars, recVars>>

(***************************************************************************)
(* Log manager (log_manager.cpp).  Everything a thread does between taking *)
(* latch_ and releasing it (or waiting on a condition variable, which      *)
(* releases it) is one step.                                               *)
(***************************************************************************)
\* The record of a call of the log manager: op, the calling thread, the LSN
\* returned (append) and next_lsn_ when the call started (flush, stop).
LogRet(op, thread, lsn, from) ==
  IF observe
    THEN [op |-> op, thread |-> thread, lsn |-> lsn, from |-> from]
    ELSE [op |-> "unobserved", thread |-> 0, lsn |-> INVALID_LSN, from |-> INVALID_LSN]

\* A thread that is in no call of the log manager.
IdleThr == [pc |-> "idle", size |-> 0, frame |-> -1, seen |-> INVALID_LSN]

\* Variant of Serialize: the record does not carry the LSN it was given.
SerializeNoLsn(buf, lsn, size) == Append(buf, [lsn |-> 0, size |-> size])

\* AppendLogRecord, lines 81-120: the record, serialised at log_buffer_offset_.
Serialize(buf, lsn, size) == Append(buf, [lsn |-> lsn, size |-> size])

\* DiskManager::WriteLog(flush_buffer_, flush_buffer_offset_): appends to the log file.
WriteLog(file, buf) == file \o buf

\* Variant of FlushedLSN: off by one.
FlushedLSNNext(next_lsn) == next_lsn

\* Flush thread, line 42: the LSN SetPersistentLSN is called with.
FlushedLSN(next_lsn) == next_lsn - 1

\* Variant of FlushBuffers: nothing is written.
FlushBuffersSkip(file, buf, offset, persistent, next_lsn) ==
  [file |-> file, buf |-> buf, offset |-> offset, persistent |-> persistent]

\* Flush thread, lines 37-43: the log file, persistent_lsn_, log_buffer_ and
\* log_buffer_offset_ after the buffers are swapped and flush_buffer_ is written.
FlushBuffers(file, buf, offset, persistent, next_lsn) ==
  IF offset > 0
    THEN [file |-> WriteLog(file, buf), buf |-> <<>>, offset |-> 0,
          persistent |-> FlushedLSN(next_lsn)]
    ELSE [file |-> file, buf |-> buf, offset |-> offset, persistent |-> persistent]

\* AppendLogRecord, lines 81-121, by thread t: the record gets its LSN and is
\* put into log_buffer_.  A record written for a page of the caller (frame f)
\* is then stamped into the page by SetLSN.
DoAppend(t, size, f) ==
  /\ next_lsn_ < MaxLsn
  /\ next_lsn_' = next_lsn_ + 1
  /\ log_buffer_' = Serialize(log_buffer_, next_lsn_, size)
  /\ log_buffer_offset_' = log_buffer_offset_ + size
  /\ handed' = Append(handed, next_lsn_)
  /\ log_ret' = LogRet("append", t, next_lsn_, INVALID_LSN)
  /\ thr' = [thr EXCEPT ![t] = IF f = -1 THEN IdleThr
                                 ELSE [pc |-> "stamp", size |-> 0, frame |-> f,
                                       seen |-> next_lsn_]]

\* LogManager::AppendLogRecord, called by thread t with a record of the given
\* size; f is the frame of the page the record is about, or -1.
AppendLogRecord(t, size, f) ==
  /\ ~crashed /\ thr[t].pc = "idle"
  /\ f # -1 => (pages_[f].page_id_ # INVALID_PAGE_ID /\ pages_[f].pin_count_ > 0)
  /\ IF size + log_buffer_offset_ > LOG_BUFFER_SIZE
       THEN /\ need_flush_' = TRUE
            /\ thr' = [thr EXCEPT ![t] = [pc |-> "append_wait", size |-> size,
                                          frame |-> f, seen |-> INVALID_LSN]]
            /\ UNCHANGED <<next_lsn_, log_buffer_, log_buffer_offset_, handed, log_ret>>
       ELSE /\ DoAppend(t, size, f)
            /\ UNCHANGED need_flush_
  /\ UNCHANGED <<enable_logging, persistent_lsn_, log_file, ft_pc, stop_pc, stop_from,
                 bpmVars, histVars, extVars, htVars, recVars>>

\* AppendResume without the condition of the wait: the thread goes on at
\* the first notification.
AppendResumeAnyway(t) ==
  /\ ~crashed /\ thr[t].pc = "append_wait"
  /\ DoAppend(t, thr[t].size, thr[t].frame)
  /\ UNCHANGED <<enable_logging, need_flush_, persistent_lsn_, log_file, ft_pc, stop_pc, stop_from,
                 bpmVars, histVars, extVars, htVars, recVars>>

\* AppendLogRecord, line 77: the waiting thread t finds room in log_buffer_.
AppendResume(t) ==
  /\ ~crashed /\ thr[t].pc = "append_wait"
  /\ thr[t].size + log_buffer_offset_ <= LOG_BUFFER_SIZE
  /\ DoAppend(t, thr[t].size, thr[t].frame)
  /\ UNCHANGED <<enable_logging, need_flush_, persistent_lsn_, log_file, ft_pc, stop_pc, stop_from,
                 bpmVars, histVars, extVars, htVars, recVars>>

\* LogManager::Flush, lines 125-127, called by thread t.
FlushBegin(t) ==
  /\ ~crashed /\ thr[t].pc = "idle"
  /\ IF ~enable_logging
       THEN /\ log_ret' = LogRet("flush_off", t, INVALID_LSN, next_lsn_)
            /\ UNCHANGED thr
       ELSE /\ thr' = [thr EXCEPT ![t] = [pc |-> "flush_lock", size |-> 0, frame |-> -1,
                                          seen |-> next_lsn_]]
            /\ UNCHANGED log_ret
  /\ UNCHANGED <<enable_logging, need_flush_, next_lsn_, persistent_lsn_, log_buffer_,
                 log_buffer_offset_, log_file, ft_pc, stop_pc, stop_from, handed,
                 bpmVars, histVars, extVars, htVars, recVars>>

\* LogManager::Flush, lines 129-131.
FlushLock(t) ==
  /\ ~crashed /\ thr[t].pc = "flush_lock"
  /\ need_flush_' = TRUE
  /\ thr' = [thr EXCEPT ![t].pc = "flush_wait"]
  /\ UNCHANGED <<enable_logging, next_lsn_, persistent_lsn_, log_buffer_,
                 log_buffer_offset_, log_file, ft_pc, stop_pc, stop_from, log_ret, handed,
                 bpmVars, histVars, extVars, htVars, recVars>>

\* LogManager::Flush, line 134: need_flush_ is false and the call returns.
FlushReturn(t) ==
  /\ ~crashed /\ thr[t].pc = "flush_wait"
  /\ ~need_flush_
  /\ thr' = [thr EXCEPT ![t] = IdleThr]
  /\ log_ret' = LogRet("flush", t, INVALID_LSN, thr[t].seen)
  /\ UNCHANGED <<enable_logging, need_flush_, next_lsn_, persistent_lsn_, log_buffer_,
                 log_buffer_offset_, log_file, ft_pc, stop_pc, stop_from, handed,
                 bpmVars, histVars, extVars, htVars, recVars>>

\* RunFlushThread, line 32: the flush thread tests while (enable_logging).
FlushThreadCheck ==
  /\ ~crashed /\ ft_pc = "loop"
  /\ ft_pc' = IF enable_logging THEN "wait" ELSE "exited"
  /\ UNCHANGED <<enable_logging, need_flush_, next_lsn_, persistent_lsn_, log_buffer_,
                 log_buffer_offset_, log_file, thr, stop_pc, stop_from, log_ret, handed,
                 bpmVars, histVars, extVars, htVars, recVars>>

\* RunFlushThread, lines 36-46: the flush thread wakes up (need_flush_ or the
\* timeout) with latch_ held, writes what is buffered and clears need_flush_.
FlushThreadWake ==
  /\ ~crashed /\ ft_pc = "wait"
  /\ LET r == FlushBuffers(log_file, log_buffer_, log_buffer_offset_,
                           persistent_lsn_, next_lsn_) IN
     /\ log_file' = r.file
     /\ log_buffer_' = r.buf
     /\ log_buffer_offset_' = r.offset
     /\ persistent_lsn_' = r.persistent
  /\ need_flush_' = FALSE
  /\ ft_pc' = "loop"
  /\ UNCHANGED <<enable_logging, next_lsn_, thr, stop_pc, stop_from, log_ret, handed,
                 bpmVars, histVars, extVars, htVars, recVars>>

\* LogManager::RunFlushThread, called by the thread that starts and stops logging.
RunFlushThread ==
  /\ ~crashed /\ stop_pc = "idle"
  /\ IF enable_logging
       THEN UNCHANGED <<enable_logging, ft_pc>>
       ELSE /\ ft_pc = "none"
            /\ enable_logging' = TRUE
            /\ ft_pc' = "loop"
  /\ log_ret' = LogRet("run", 0, INVALID_LSN, INVALID_LSN)
  /\ UNCHANGED <<need_flush_, next_lsn_, persistent_lsn_, log_buffer_,
                 log_buffer_offset_, log_file, thr, stop_pc, stop_from, handed,
                 bpmVars, histVars, extVars, htVars, recVars>>

\* LogManager::StopFlushThread, lines 55-56, called by the same thread while a
\* flush thread exists: enable_logging is cleared and Flush(), which tests the
\* flag first (line 125), returns at once.
StopFlushThread ==
  /\ ~crashed /\ stop_pc = "idle" /\ ft_pc # "none"
  /\ enable_logging' = FALSE
  /\ stop_pc' = "join"
  /\ stop_from' = IF observe THEN next_lsn_ ELSE INVALID_LSN
  /\ UNCHANGED <<need_flush_, next_lsn_, persistent_lsn_, log_buffer_,
                 log_buffer_offset_, log_file, ft_pc, thr, log_ret, handed,
                 bpmVars, histVars, extVars, htVars, recVars>>

\* LogManager::StopFlushThread, lines 57-59: join returns when the flush thread ended.
StopJoin ==
  /\ ~crashed /\ stop_pc = "join" /\ ft_pc = "exited"
  /\ ft_pc' = "none"
  /\ stop_pc' = "idle"
  /\ stop_from' = INVALID_LSN
  /\ log_ret' = LogRet("stop", 0, INVALID_LSN, next_lsn_)
  /\ UNCHANGED <<enable_logging, need_flush_, next_lsn_, persistent_lsn_, log_buffer_,
                 log_buffer_offset_, log_file, thr, handed,
                 bpmVars, histVars, extVars, htVars, recVars>>

(***************************************************************************)
(* The write-ahead interlock: the buffer pool thread inside                *)
(* LogManager::Flush (called at buffer_pool_manager.cpp line 199 with      *)
(* latch_ held), and a client that logs a change and stamps the page.      *)
(***************************************************************************)
\* LogManager::Flush, lines 125-127, called from GetVictimFrameId.
BpmFlushBegin ==
  /\ ~crashed /\ bpm_pc.stage = "flush"
  /\ bpm_pc' = [bpm_pc EXCEPT !.stage = IF enable_logging THEN "flush_lock" ELSE "write"]
  /\ UNCHANGED <<pages_, page_table_, free_list_, frames_, clock_hand_, disk,
                 next_page_id, bpm_ret, crashed, histVars, extVars, logVars, htVars, recVars>>

\* LogManager::Flush, lines 129-131, called from GetVictimFrameId.
BpmFlushLock ==
  /\ ~crashed /\ bpm_pc.stage = "flush_lock"
  /\ bpm_pc' = [bpm_pc EXCEPT !.stage = "flush_wait"]
  /\ need_flush_' = TRUE
  /\ UNCHANGED <<pages_, page_table_, free_list_, frames_, clock_hand_, disk,
                 next_page_id, bpm_ret, crashed, histVars, extVars, htVars, recVars>>
  /\ UNCHANGED <<enable_logging, next_lsn_, persistent_lsn_, log_buffer_,
                 log_buffer_offset_, log_file, ft_pc, thr, stop_pc, stop_from, log_ret, handed>>

\* LogManager::Flush, line 134, called from GetVictimFrameId: the call returns.
BpmFlushReturn ==
  /\ ~crashed /\ bpm_pc.stage = "flush_wait"
  /\ ~need_flush_
  /\ bpm_pc' = [bpm_pc EXCEPT !.stage = "write"]
  /\ UNCHANGED <<pages_, page_table_, free_list_, frames_, clock_hand_, disk,
                 next_page_id, bpm_ret, crashed, histVars, extVars, logVars, htVars, recVars>>

\* Page::SetLSN: thread t, which holds a pointer to the pinned frame it logged a
\* change for, writes the LSN AppendLogRecord returned into the page.
SetLSN(t) ==
  /\ ~crashed /\ thr[t].pc = "stamp"
  /\ pages_' = [pages_ EXCEPT ![thr[t].frame].lsn_ = thr[t].seen,
                              ![thr[t].frame].stamped = TRUE]
  /\ thr' = [thr EXCEPT ![t] = IdleThr]
  /\ UNCHANGED <<page_table_, free_list_, frames_, clock_hand_, disk, next_page_id,
                 bpm_pc, bpm_ret, crashed, histVars, extVars, htVars, recVars>>
  /\ UNCHANGED <<enable_logging, need_flush_, next_lsn_, persistent_lsn_, log_buffer_,
                 log_buffer_offset_, log_file, ft_pc, stop_pc, stop_from, log_ret, handed>>

(***************************************************************************)
(* Linear probe hash table (linear_probe_hash_table.cpp) over its block    *)
(* pages (hash_table_block_page.cpp).  The calls are made one after the    *)
(* other by one thread; the buffer pool is large enough to keep every page *)
(* of the table resident, so a page is its contents, its latch and its pin *)
(* count.                                                                  *)
(***************************************************************************)
\* A thread that is in no call of the table.
NoRet == [op |-> "none", ok |-> FALSE, whole |-> FALSE]

IdleCall ==
  [pc |-> "idle", op |-> "none", key |-> 0, value |-> 0, size |-> 0, rd |-> FALSE,
   ret |-> NoRet]

\* A new block page: BufferPoolManager::NewPage zeroes it.
EmptyBlock ==
  [array_ |-> [i \in Buckets |-> [key |-> 0, value |-> 0]],
   occupied_ |-> [i \in Buckets |-> FALSE],
   readable_ |-> [i \in Buckets |-> FALSE]]

\* Page::RLatch / WLatch can be taken (ReaderWriterLatch: the reader count is
\* unsigned, -1 stands for the value it wraps to, MAX_READERS).
CanLatch(l, lockType) ==
  IF lockType = "READ" THEN ~l.writer /\ l.readers # -1
                       ELSE ~l.writer /\ l.readers = 0

\* Page::RLatch / WLatch on the page of block b.
Latch(latch, b, lockType) ==
  IF lockType = "READ" THEN [latch EXCEPT ![b].readers = @ + 1]
                       ELSE [latch EXCEPT ![b].writer = TRUE]

\* Page::RUnlatch / WUnlatch on the page of block b.
Unlatch(latch, b, lockType) ==
  IF lockType = "READ" THEN [latch EXCEPT ![b].readers = @ - 1]
                       ELSE [latch EXCEPT ![b].writer = FALSE]

\* buffer_pool_manager_->FetchPage on the resident page of block b.
HtFetch(pin, b) == [pin EXCEPT ![b] = @ + 1]

\* buffer_pool_manager_->UnpinPage on the page of block b.
HtUnpin(pin, b) == [pin EXCEPT ![b] = IF @ > 0 THEN @ - 1 ELSE @]

\* HashTableBlockPage::IsOccupied
IsOccupied(block, bucket_ind) == block.occupied_[bucket_ind]

\* HashTableBlockPage::IsReadable
IsReadable(block, bucket_ind) == block.readable_[bucket_ind]

\* HashTableBlockPage::Insert, lines 35-38 (the slot is not readable).
BlockInsert(block, bucket_ind, key, value) ==
  [array_ |-> [block.array_ EXCEPT ![bucket_ind] = [key |-> key, value |-> value]],
   occupied_ |-> [block.occupied_ EXCEPT ![bucket_ind] = TRUE],
   readable_ |-> [block.readable_ EXCEPT ![bucket_ind] = TRUE]]

\* A Remove that gives the slot back: it clears the occupied bit as well.
BlockRemoveFreesSlot(block, bucket_ind) ==
  [block EXCEPT !.readable_[bucket_ind] = FALSE, !.occupied_[bucket_ind] = FALSE]
\* HashTableBlockPage::Remove
BlockRemove(block, bucket_ind) ==
  [block EXCEPT !.readable_[bucket_ind] = FALSE]

\* LinearProbeHashTable::IsMatch: the slot holds the key and the value.
IsMatch(block, bucket_ind, key, value) ==
  block.array_[bucket_ind].key = key /\ block.array_[bucket_ind].value = value

\* LinearProbeHashTable::GetIndex
GetIndex(key) ==
  LET slot_index == hash_fn_[key] % (BLOCK_ARRAY_SIZE * num_buckets)
      block_index == slot_index \div BLOCK_ARRAY_SIZE
  IN [slot_index |-> slot_index, block_index |-> block_index,
      bucket_index |-> block_index % BLOCK_ARRAY_SIZE]

\* LinearProbeHashTable::GetSize: the slots of the block pages of the header
\* page header_page_id_.
GetSize == num_blocks * BLOCK_ARRAY_SIZE
\* The start of GetValue / Insert / Remove: the block page of the key is
\* fetched and latched.  c is the state of the call: the latches and pins, the
\* caller's block_index and bucket_index, whether it waits forever, its result.
ProbeBegin(key, lockType) ==
  LET idx == GetIndex(key)
      ok == CanLatch(ht_latch[idx.block_index], lockType)
  IN [latch |-> IF ok THEN Latch(ht_latch, idx.block_index, lockType) ELSE ht_latch,
      pin |-> HtFetch(ht_pin, idx.block_index),
      block_index |-> idx.block_index, bucket_index |-> idx.bucket_index,
      hung |-> ~ok, result |-> <<>>]

\* LinearProbeHashTable::StepForward, called with the caller's raw_block_page,
\* the page of block b0.  raw_block_page and block_page are passed by value:
\* the page fetched and latched at lines 295-301 is not seen by the caller,
\* which goes on with the page of b0.
StepForward(c, b0, lockType) ==
  IF c.bucket_index + 1 # BLOCK_ARRAY_SIZE
    THEN [c EXCEPT !.bucket_index = @ + 1]
    ELSE LET l1 == Unlatch(c.latch, b0, lockType)
             p1 == HtUnpin(c.pin, b0)
             nb == (c.block_index + 1) % num_blocks
             ok == CanLatch(l1[nb], lockType)
         IN [c EXCEPT !.bucket_index = 0, !.block_index = nb,
                      !.pin = HtFetch(p1, nb),
                      !.latch = IF ok THEN Latch(l1, nb, lockType) ELSE l1,
                      !.hung = ~ok]

\* The caller is back at the slot it started from (lines 72, 115, 178).
Wrapped(c, idx) ==
  c.block_index * BLOCK_ARRAY_SIZE + c.bucket_index = idx.slot_index

\* GetValue, lines 62-75.
RECURSIVE GetLoop(_, _, _)
GetLoop(c, key, idx) ==
  LET block == ht_blocks[idx.block_index] IN
  IF ~IsOccupied(block, c.bucket_index) THEN c
  ELSE LET c1 == IF IsReadable(block, c.bucket_index)
                      /\ block.array_[c.bucket_index].key = key
                   THEN [c EXCEPT !.result = Append(@, block.array_[c.bucket_index].value)]
                   ELSE c
           c2 == StepForward(c1, idx.block_index, "READ")
       IN IF c2.hung \/ Wrapped(c2, idx) THEN c2 ELSE GetLoop(c2, key, idx)

\* Insert, lines 104-134: the call ends by storing the pair ("inserted"), by
\* finding it ("exists"), or by going to Resize ("resize").
RECURSIVE InsertLoop(_, _, _, _)
InsertLoop(c, key, value, idx) ==
  LET block == ht_blocks[idx.block_index] IN
  IF ~IsReadable(block, c.bucket_index) THEN [c EXCEPT !.result = "inserted"]
  ELSE IF IsMatch(block, c.bucket_index, key, value) THEN [c EXCEPT !.result = "exists"]
  ELSE LET c2 == StepForward(c, idx.block_index, "WRITE") IN
       IF c2.hung THEN c2
       ELSE IF Wrapped(c2, idx) THEN [c2 EXCEPT !.result = "resize"]
       ELSE InsertLoop(c2, key, value, idx)

\* Remove, lines 162-181: the call ends at the matching slot ("removed" when
\* it is readable, "tombstone" when not) or without one ("none").
RECURSIVE RemoveLoop(_, _, _, _)
RemoveLoop(c, key, value, idx) ==
  LET block == ht_blocks[idx.block_index] IN
  IF ~IsOccupied(block, c.bucket_index) THEN [c EXCEPT !.result = "none"]
  ELSE IF IsMatch(block, c.bucket_index, key, value)
         THEN [c EXCEPT !.result = IF IsReadable(block, c.bucket_index)
                                     THEN "removed" ELSE "tombstone"]
  ELSE LET c2 == StepForward(c, idx.block_index, "WRITE") IN
       IF c2.hung THEN c2
       ELSE IF Wrapped(c2, idx) THEN [c2 EXCEPT !.result = "none"]
       ELSE RemoveLoop(c2, key, value, idx)

\* The thread can make a call (and the pins and latches left behind by the
\* calls so far are within the cap).
HtReady ==
  /\ ~ht_hung
  /\ \A b \in Blocks : /\ ht_pin[b] <= MaxLeak
                       /\ ht_latch[b].readers <= MaxLeak
                       /\ ht_latch[b].readers >= -MaxLeak

\* The call never returns: the thread waits for a latch.
HtHang(c, op, key, value) ==
  /\ ht_hung' = TRUE
  /\ ht_latch' = c.latch
  /\ ht_pin' = c.pin
  /\ ht_ret' = [op |-> "hung", key |-> key, value |-> value, ok |-> FALSE, result |-> <<>>]
  /\ UNCHANGED <<ht_blocks, ht_abs>>

\* LinearProbeHashTable::GetValue(key, &result)
GetValue(key) ==
  /\ HtReady
  /\ LET idx == GetIndex(key)
         c0 == ProbeBegin(key, "READ")
         c == IF c0.hung THEN c0 ELSE GetLoop(c0, key, idx)
     IN IF c.hung
          THEN HtHang(c, "get", key, 0)
          ELSE /\ ht_latch' = Unlatch(c.latch, idx.block_index, "READ")
               /\ ht_pin' = HtUnpin(c.pin, idx.block_index)
               /\ ht_ret' = [op |-> "get", key |-> key, value |-> 0,
                             ok |-> c.result # <<>>, result |-> c.result]
               /\ UNCHANGED <<ht_blocks, ht_hung, ht_abs>>
  /\ UNCHANGED <<num_buckets, hash_fn_, num_blocks, table_latch_, ht_thr,
                 bpmVars, histVars, extVars, logVars, recVars>>

\* LinearProbeHashTable::Insert(key, value).  At line 122 the call enters
\* Resize, whose table_latch_.WLock() waits for the read lock that the same
\* thread took at line 88.
Insert(key, value) ==
  /\ HtReady
  /\ LET idx == GetIndex(key)
         b0 == idx.block_index
         c0 == ProbeBegin(key, "WRITE")
         c == IF c0.hung THEN c0 ELSE InsertLoop(c0, key, value, idx)
     IN IF c.hung
          THEN HtHang(c, "insert", key, value)
          ELSE IF c.result = "resize"
            THEN HtHang([c EXCEPT !.latch = Unlatch(c.latch, b0, "WRITE"),
                                  !.pin = HtUnpin(c.pin, b0)], "insert", key, value)
            ELSE /\ ht_blocks' = IF c.result = "inserted"
                                   THEN [ht_blocks EXCEPT ![b0] =
                                           BlockInsert(@, c.bucket_index, key, value)]
                                   ELSE ht_blocks
                 /\ ht_latch' = Unlatch(c.latch, b0, "WRITE")
                 /\ ht_pin' = HtUnpin(c.pin, b0)
                 /\ ht_ret' = [op |-> "insert", key |-> key, value |-> value,
                               ok |-> c.result = "inserted", result |-> <<>>]
                 /\ ht_abs' = IF c.result = "inserted"
                                THEN ht_abs \cup {<<key, value>>} ELSE ht_abs
                 /\ UNCHANGED ht_hung
  /\ UNCHANGED <<num_buckets, hash_fn_, num_blocks, table_latch_, ht_thr,
                 bpmVars, histVars, extVars, logVars, recVars>>

\* LinearProbeHashTable::Remove(key, value)
Remove(key, value) ==
  /\ HtReady
  /\ LET idx == GetIndex(key)
         b0 == idx.block_index
         c0 == ProbeBegin(key, "WRITE")
         c == IF c0.hung THEN c0 ELSE RemoveLoop(c0, key, value, idx)
     IN IF c.hung
          THEN HtHang(c, "remove", key, value)
          ELSE /\ ht_blocks' = IF c.result = "removed"
                                 THEN [ht_blocks EXCEPT ![b0] = BlockRemove(@, c.bucket_index)]
                                 ELSE ht_blocks
               /\ ht_latch' = Unlatch(c.latch, b0, "WRITE")
               /\ ht_pin' = HtUnpin(c.pin, b0)
               /\ ht_ret' = [op |-> "remove", key |-> key, value |-> value,
                             ok |-> c.result = "removed", result |-> <<>>]
               /\ ht_abs' = IF c.result = "removed"
                              THEN ht_abs \ {<<key, value>>} ELSE ht_abs
               /\ UNCHANGED ht_hung
  /\ UNCHANGED <<num_buckets, hash_fn_, num_blocks, table_latch_, ht_thr,
                 bpmVars, histVars, extVars, logVars, recVars>>

(***************************************************************************)
(* The hash table shared by threads.  Every call takes table_latch_ first   *)
(* (lines 46, 88, 146, 193); between taking it and giving it back a call is *)
(* one step, since calls that hold the latch shared change single slots     *)
(* under the latch of the block page.                                      *)
(***************************************************************************)
\* ReaderWriterLatch::RLock can return: no writer has entered.
CanRLock == ~table_latch_.writer

\* The caps on what the calls so far left behind (see HtReady).
HtCapped ==
  \A b \in Blocks : /\ ht_pin[b] <= MaxLeak
                    /\ ht_latch[b].readers <= MaxLeak
                    /\ ht_latch[b].readers >= -MaxLeak

\* How often each pair is in a readable slot of the first n block pages.
Entries(blocks, n) ==
  [kv \in Keys \X Values |->
     Cardinality({s \in (0 .. (n - 1)) \X Buckets :
                    /\ blocks[s[1]].readable_[s[2]]
                    /\ blocks[s[1]].array_[s[2]] = [key |-> kv[1], value |-> kv[2]]})]

\* The values of the pairs with key k in readable slots.
ValuesOf(blocks, n, k) ==
  {v \in Values : Entries(blocks, n)[<<k, v>>] > 0}

\* A slot of the first n block pages is a tombstone.
HasTombstone(blocks, n) ==
  \E b \in 0 .. (n - 1), i \in Buckets : blocks[b].occupied_[i] /\ ~blocks[b].readable_[i]

\* A thread calls GetValue, Insert or Remove: it is at table_latch_.RLock().
HtCall(t, op, key, value) ==
  /\ ht_thr[t].pc = "idle"
  /\ HtCapped
  /\ ht_thr' = [ht_thr EXCEPT ![t] = [pc |-> "rlock", op |-> op, key |-> key,
                                      value |-> value, size |-> 0, rd |-> FALSE,
                                      ret |-> NoRet]]
  /\ UNCHANGED <<num_buckets, hash_fn_, ht_blocks, ht_latch, ht_pin, ht_hung, ht_ret,
                 ht_abs, num_blocks, table_latch_, bpmVars, histVars, extVars, logVars, recVars>>

\* A thread calls Resize(initial_size): it is at table_latch_.WLock(), line 193.
ResizeCall(t, initial_size) ==
  /\ ht_thr[t].pc = "idle"
  /\ HtCapped
  /\ ht_thr' = [ht_thr EXCEPT ![t] = [pc |-> "wlock", op |-> "resize", key |-> 0,
                                      value |-> 0, size |-> initial_size, rd |-> FALSE,
                                      ret |-> NoRet]]
  /\ UNCHANGED <<num_buckets, hash_fn_, ht_blocks, ht_latch, ht_pin, ht_hung, ht_ret,
                 ht_abs, num_blocks, table_latch_, bpmVars, histVars, extVars, logVars, recVars>>

\* table_latch_.RLock() returns (lines 46, 88, 146).
TableRLock(t) ==
  /\ ht_thr[t].pc = "rlock"
  /\ CanRLock
  /\ table_latch_' = [table_latch_ EXCEPT !.readers = @ + 1]
  /\ ht_thr' = [ht_thr EXCEPT ![t].pc = "body"]
  /\ UNCHANGED <<num_buckets, hash_fn_, ht_blocks, ht_latch, ht_pin, ht_hung, ht_ret,
                 ht_abs, num_blocks, bpmVars, histVars, extVars, logVars, recVars>>

\* The call of thread t waits for the latch of a block page for ever.
CallHangs(t, c) ==
  /\ ht_latch' = c.latch
  /\ ht_pin' = c.pin
  /\ ht_thr' = [ht_thr EXCEPT ![t] = [IdleCall EXCEPT !.pc = "hung"]]
  /\ UNCHANGED <<ht_blocks, num_blocks, table_latch_>>

\* The call of thread t returns: lines 77-83, 136-141, 183-188.
CallReturns(t, c, b0, lockType, ret) ==
  /\ ht_latch' = Unlatch(c.latch, b0, lockType)
  /\ ht_pin' = HtUnpin(c.pin, b0)
  /\ table_latch_' = [table_latch_ EXCEPT !.readers = @ - 1]
  /\ ht_thr' = [ht_thr EXCEPT ![t] = [IdleCall EXCEPT !.ret = ret]]
  /\ UNCHANGED num_blocks

\* GetValue, lines 48-83, in a thread that holds table_latch_ shared.
GetValueBody(t) ==
  /\ ht_thr[t].pc = "body" /\ ht_thr[t].op = "get"
  /\ LET key == ht_thr[t].key
         idx == GetIndex(key)
         c0 == ProbeBegin(key, "READ")
         c == IF c0.hung THEN c0 ELSE GetLoop(c0, key, idx)
     IN IF c.hung
          THEN CallHangs(t, c)
          ELSE /\ CallReturns(t, c, idx.block_index, "READ",
                              [op |-> "get", ok |-> c.result # <<>>,
                               whole |-> {c.result[i] : i \in 1 .. Len(c.result)}
                                           = ValuesOf(ht_blocks, num_blocks, key)])
               /\ UNCHANGED ht_blocks
  /\ UNCHANGED <<num_buckets, hash_fn_, ht_hung, ht_ret, ht_abs,
                 bpmVars, histVars, extVars, logVars, recVars>>

\* Insert, lines 90-141, in a thread that holds table_latch_ shared.  Back at
\* the slot it started from, the call gives up its pages (lines 116-119) and
\* enters Resize (line 122) with table_latch_ still held shared.
InsertBody(t) ==
  /\ ht_thr[t].pc = "body" /\ ht_thr[t].op = "insert"
  /\ LET key == ht_thr[t].key
         value == ht_thr[t].value
         idx == GetIndex(key)
         b0 == idx.block_index
         c0 == ProbeBegin(key, "WRITE")
         c == IF c0.hung THEN c0 ELSE InsertLoop(c0, key, value, idx)
     IN IF c.hung
          THEN CallHangs(t, c)
          ELSE IF c.result = "resize"
            THEN /\ ht_latch' = Unlatch(c.latch, b0, "WRITE")
                 /\ ht_pin' = HtUnpin(c.pin, b0)
                 /\ ht_thr' = [ht_thr EXCEPT ![t].pc = "wlock", ![t].rd = TRUE,
                                             ![t].size = num_blocks * BLOCK_ARRAY_SIZE]
                 /\ UNCHANGED <<ht_blocks, num_blocks, table_latch_>>
            ELSE /\ CallReturns(t, c, b0, "WRITE",
                                [NoRet EXCEPT !.op = "insert"])
                 /\ ht_blocks' = IF c.result = "inserted"
                                   THEN [ht_blocks EXCEPT ![b0] =
                                           BlockInsert(@, c.bucket_index, key, value)]
                                   ELSE ht_blocks
  /\ UNCHANGED <<num_buckets, hash_fn_, ht_hung, ht_ret, ht_abs,
                 bpmVars, histVars, extVars, logVars, recVars>>

\* Remove, lines 148-188, in a thread that holds table_latch_ shared.
RemoveBody(t) ==
  /\ ht_thr[t].pc = "body" /\ ht_thr[t].op = "remove"
  /\ LET key == ht_thr[t].key
         value == ht_thr[t].value
         idx == GetIndex(key)
         b0 == idx.block_index
         c0 == ProbeBegin(key, "WRITE")
         c == IF c0.hung THEN c0 ELSE RemoveLoop(c0, key, value, idx)
     IN IF c.hung
          THEN CallHangs(t, c)
          ELSE /\ CallReturns(t, c, b0, "WRITE",
                              [NoRet EXCEPT !.op = "remove"])
               /\ ht_blocks' = IF c.result = "removed"
                                 THEN [ht_blocks EXCEPT ![b0] = BlockRemove(@, c.bucket_index)]
                                 ELSE ht_blocks
  /\ UNCHANGED <<num_buckets, hash_fn_, ht_hung, ht_ret, ht_abs,
                 bpmVars, histVars, extVars, logVars, recVars>>

\* Resize, line 193, ReaderWriterLatch::WLock: the writer enters once no other
\* writer has, and then waits for the readers to leave.
TableWLock(t) ==
  /\ ht_thr[t].pc = "wlock"
  /\ ~table_latch_.writer
  /\ table_latch_' = [table_latch_ EXCEPT !.writer = TRUE]
  /\ ht_thr' = [ht_thr EXCEPT ![t].pc = "wait"]
  /\ UNCHANGED <<num_buckets, hash_fn_, ht_blocks, ht_latch, ht_pin, ht_hung, ht_ret,
                 ht_abs, num_blocks, bpmVars, histVars, extVars, logVars, recVars>>

\* Resize, lines 195-230, once WLock has returned.  The new header page, with
\* new block pages, becomes header_page_id_ (line 201); the old block pages are
\* gone through in order, and at the first readable slot Resize calls Insert
\* (line 216), whose table_latch_.RLock() waits for the writer, the calling
\* thread itself.  Without a readable slot Resize deletes the old pages and
\* returns.  num_buckets is not changed.
ResizeBody(t) ==
  /\ ht_thr[t].pc = "wait"
  /\ table_latch_.readers = 0
  /\ LET n == (2 * ht_thr[t].size) \div BLOCK_ARRAY_SIZE
         moves == \E b \in 0 .. (num_blocks - 1), i \in Buckets : IsReadable(ht_blocks[b], i)
     IN /\ n \in 1 .. MaxBlocks
        /\ num_blocks' = n
        /\ ht_blocks' = [b \in Blocks |-> EmptyBlock]
        /\ ht_latch' = [b \in Blocks |-> [readers |-> 0, writer |-> FALSE]]
        /\ ht_pin' = [b \in Blocks |-> 0]
        /\ IF moves
             THEN /\ ht_thr' = [ht_thr EXCEPT ![t].pc = "rlock", ![t].op = "move"]
                  /\ UNCHANGED table_latch_
             ELSE /\ table_latch_' = [table_latch_ EXCEPT !.writer = FALSE]
                  /\ ht_thr' = [ht_thr EXCEPT ![t] =
                       [(IF ht_thr[t].rd THEN [ht_thr[t] EXCEPT !.pc = "body"] ELSE IdleCall)
                          EXCEPT !.ret =
                            [op |-> "resize",
                             ok |-> Entries(ht_blocks', n) = Entries(ht_blocks, num_blocks),
                             whole |-> ~HasTombstone(ht_blocks', n)]]]
  /\ UNCHANGED <<num_buckets, hash_fn_, ht_hung, ht_ret, ht_abs,
                 bpmVars, histVars, extVars, logVars, recVars>>

(***************************************************************************)
(* A block page by itself (hash_table_block_page.cpp): the bitmaps are     *)
(* bytes, changed by the shifts and masks of GetBit and SetBit.  bucket_ind *)
(* is within the page (array_ has no other elements).                      *)
(***************************************************************************)
\* The slots of the page, and the ones the calls are made on: the first and
\* the last bit of the first byte, the first bit of the second byte, the last
\* bit of the last byte.
PageSlots == 0 .. (8 * BlockBytes - 1)
CalledSlots == {0, 7, 8, 8 * BlockBytes - 1}

\* Bit n of a byte.
BitOf(byte, n) == (byte \div (2 ^ n)) % 2

\* a & b and a | b on the 8 bits of two bytes.
AndByte(a, b) ==
  LET t(n) == (2 ^ n) * (BitOf(a, n) * BitOf(b, n))
  IN t(0) + t(1) + t(2) + t(3) + t(4) + t(5) + t(6) + t(7)

OrByte(a, b) ==
  LET t(n) == (2 ^ n) * (IF BitOf(a, n) + BitOf(b, n) > 0 THEN 1 ELSE 0)
  IN t(0) + t(1) + t(2) + t(3) + t(4) + t(5) + t(6) + t(7)

\* HashTableBlockPage::GetBit: array[bucket_ind / 8] & (1 << bucket_ind % 8),
\* converted to bool.
GetBit(array, bucket_ind) ==
  AndByte(array[bucket_ind \div 8], 2 ^ (bucket_ind % 8)) # 0

\* A SetBit whose mask for clearing is ~0xff: it clears the byte.
SetBitClearsByte(array, bucket_ind, value) ==
  IF value
    THEN [array EXCEPT ![bucket_ind \div 8] = OrByte(@, 2 ^ (bucket_ind % 8))]
    ELSE [array EXCEPT ![bucket_ind \div 8] = AndByte(@, 0)]

\* HashTableBlockPage::SetBit: |= (1 << bucket_ind % 8), or
\* &= ~(1 << bucket_ind % 8); of ~mask the byte keeps the low 8 bits.
SetBit(array, bucket_ind, value) ==
  IF value
    THEN [array EXCEPT ![bucket_ind \div 8] = OrByte(@, 2 ^ (bucket_ind % 8))]
    ELSE [array EXCEPT ![bucket_ind \div 8] = AndByte(@, 255 - 2 ^ (bucket_ind % 8))]

\* HashTableBlockPage::Insert(bucket_ind, key, value)
BlockPageInsert(bucket_ind, key, value) ==
  /\ IF GetBit(block_page.readable_, bucket_ind)
       THEN /\ block_ret' = [op |-> "insert", bucket_ind |-> bucket_ind, ok |-> FALSE]
            /\ UNCHANGED block_page
       ELSE /\ block_page' =
                 [array_ |-> [block_page.array_ EXCEPT ![bucket_ind] =
                                [key |-> key, value |-> value]],
                  readable_ |-> SetBit(block_page.readable_, bucket_ind, TRUE),
                  occupied_ |-> SetBit(block_page.occupied_, bucket_ind, TRUE)]
            /\ block_ret' = [op |-> "insert", bucket_ind |-> bucket_ind, ok |-> TRUE]
  /\ UNCHANGED <<victim_pc, hj, bpmVars, histVars, logVars, htVars, recVars>>

\* HashTableBlockPage::Remove(bucket_ind)
BlockPageRemove(bucket_ind) ==
  /\ block_page' = [block_page EXCEPT
                      !.readable_ = SetBit(block_page.readable_, bucket_ind, FALSE)]
  /\ block_ret' = [op |-> "remove", bucket_ind |-> bucket_ind, ok |-> TRUE]
  /\ UNCHANGED <<victim_pc, hj, bpmVars, histVars, logVars, htVars, recVars>>

\* A new page: BufferPoolManager::NewPage zeroes its bytes.
InitBlockPage ==
  /\ block_page = [array_ |-> [i \in PageSlots |-> [key |-> 0, value |-> 0]],
                   occupied_ |-> [b \in 0 .. (BlockBytes - 1) |-> 0],
                   readable_ |-> [b \in 0 .. (BlockBytes - 1) |-> 0]]
  /\ block_ret = [op |-> "init", bucket_ind |-> 0, ok |-> TRUE]

(***************************************************************************)
(* Hash join executor (hash_join_executor.cpp) over the join hash table    *)
(* jht_, a LinearProbeHashTable from hash values to TmpTuple handles, and  *)
(* the temporary tuple pages (tmp_tuple_page.h).  A tuple of a child is    *)
(* its join key (the left ones also have a size in bytes); the plan's      *)
(* predicate is the equality of the join keys.  A TmpTuple (page id,       *)
(* offset) is the integer page id * PAGE_SIZE + offset.  The buffer pool   *)
(* hands out the temporary pages 0, 1, ... and keeps them.                 *)
(***************************************************************************)
JoinVals == 0 .. (NumJoinVals - 1)
TupleSizes == {8, 3000}
LeftTuples == [key : JoinVals, size : TupleSizes]
SeqsUpTo(S, n) == UNION {[1 .. m -> S] : m \in 0 .. n}

NoJoin == [pc |-> "none", left |-> <<>>, right |-> <<>>,
           hv |-> [v \in JoinVals |-> 0], built |-> 0, tmp_page_id |-> 0,
           free |-> 0, tmp |-> <<>>, cursor |-> 0, out |-> <<>>, ret |-> FALSE]

\* HashValues(tuple, schema, keys): the hash of the tuple's join key.
HashValues(key) == hj.hv[key]

\* TmpTuplePage::Insert on a page whose free space pointer is free: whether
\* the tuple fits, and the free space pointer (the tuple's offset) after it.
TmpInsert(free, size) ==
  IF free - SIZE_TABLE_PAGE_HEADER < size + SIZE_TUPLE
    THEN [ok |-> FALSE, free |-> free]
    ELSE [ok |-> TRUE, free |-> free - size - SIZE_TUPLE]

\* HashJoinExecutor::HashJoinExecutor: the children produce left and right,
\* hv is the hash of the join keys; jht_ is the table constructed in Init.
HashJoinExecutor(left, right, hv) ==
  /\ hj.pc = "none"
  /\ hj' = [NoJoin EXCEPT !.pc = "new", !.left = left, !.right = right, !.hv = hv]
  /\ UNCHANGED <<block_page, block_ret, victim_pc, bpmVars, histVars, logVars,
                 htVars, recVars>>

\* HashJoinExecutor::Init, lines 28-39: the first temporary page.
HashJoinInit ==
  /\ hj.pc = "new"
  /\ hj' = [hj EXCEPT !.pc = "build", !.tmp_page_id = 0, !.free = PAGE_SIZE]
  /\ UNCHANGED <<block_page, block_ret, victim_pc, bpmVars, histVars, logVars,
                 htVars, recVars>>

\* HashJoinExecutor::Init, one round of the loop of lines 40-54: the next
\* left tuple goes to the temporary page (to a new one when it does not
\* fit) and its handle into jht_ under its hash (LinearProbeHashTable::
\* Insert, which does not return when it enters Resize).
HashJoinInitTuple ==
  /\ hj.pc = "build" /\ hj.built < Len(hj.left)
  /\ HtReady
  /\ LET i == hj.built + 1
         tuple == hj.left[i]
         h == HashValues(tuple.key)
         first == TmpInsert(hj.free, tuple.size)
         tmp_page_id == IF first.ok THEN hj.tmp_page_id ELSE hj.tmp_page_id + 1
         ins == IF first.ok THEN first ELSE TmpInsert(PAGE_SIZE, tuple.size)
         tmp_tuple == tmp_page_id * PAGE_SIZE + ins.free
         idx == GetIndex(h)
         b0 == idx.block_index
         c0 == ProbeBegin(h, "WRITE")
         c == IF c0.hung THEN c0 ELSE InsertLoop(c0, h, tmp_tuple, idx)
         stored == [hj EXCEPT !.built = i, !.tmp_page_id = tmp_page_id,
                              !.free = ins.free, !.tmp = @ @@ (tmp_tuple :> i)]
     IN IF c.hung
          THEN /\ ht_hung' = TRUE
               /\ ht_latch' = c.latch
               /\ ht_pin' = c.pin
               /\ hj' = [stored EXCEPT !.pc = "hung"]
               /\ UNCHANGED ht_blocks
          ELSE IF c.result = "resize"
            THEN /\ ht_hung' = TRUE
                 /\ ht_latch' = Unlatch(c.latch, b0, "WRITE")
                 /\ ht_pin' = HtUnpin(c.pin, b0)
                 /\ hj' = [stored EXCEPT !.pc = "hung"]
                 /\ UNCHANGED ht_blocks
            ELSE /\ ht_blocks' = IF c.result = "inserted"
                                   THEN [ht_blocks EXCEPT ![b0] =
                                           BlockInsert(@, c.bucket_index, h, tmp_tuple)]
                                   ELSE ht_blocks
                 /\ ht_latch' = Unlatch(c.latch, b0, "WRITE")
                 /\ ht_pin' = HtUnpin(c.pin, b0)
                 /\ hj' = stored
                 /\ UNCHANGED ht_hung
  /\ UNCHANGED <<num_buckets, hash_fn_, num_blocks, table_latch_, ht_thr, ht_ret,
                 ht_abs, block_page, block_ret, victim_pc, bpmVars, histVars,
                 logVars, recVars>>

\* HashJoinExecutor::Init, lines 40 and 56: the left child is exhausted.
HashJoinInitEnd ==
  /\ hj.pc = "build" /\ hj.built = Len(hj.left)
  /\ hj' = [hj EXCEPT !.pc = "ready"]
  /\ UNCHANGED <<block_page, block_ret, victim_pc, bpmVars, histVars, logVars,
                 htVars, recVars>>

\* The for loop of lines 74-93: the position in tmp_tuples of the first
\* handle whose left tuple satisfies the predicate with the right tuple, 0
\* when there is none.
FirstMatch(tmp_tuples, right_tuple) ==
  LET ms == {n \in 1 .. Len(tmp_tuples) :
               hj.left[hj.tmp[tmp_tuples[n]]].key = right_tuple}
  IN IF ms = {} THEN 0 ELSE CHOOSE n \in ms : \A m \in ms : n <= m

\* HashJoinExecutor::Next, one round of the loop of lines 67-94, in a call
\* that starts (pc "ready") or goes on (pc "next"): the right child gives
\* its next tuple, jht_.GetValue gives the handles under its hash, and the
\* call returns true with the first matching left tuple (line 91); with no
\* match the loop takes the next right tuple.
HashJoinNext ==
  /\ hj.pc \in {"ready", "next"} /\ hj.cursor < Len(hj.right)
  /\ HtReady
  /\ LET j == hj.cursor + 1
         right_tuple == hj.right[j]
         h == HashValues(right_tuple)
         idx == GetIndex(h)
         c0 == ProbeBegin(h, "READ")
         c == IF c0.hung THEN c0 ELSE GetLoop(c0, h, idx)
     IN IF c.hung
          THEN /\ ht_hung' = TRUE
               /\ ht_latch' = c.latch
               /\ ht_pin' = c.pin
               /\ hj' = [hj EXCEPT !.pc = "hung", !.cursor = j]
          ELSE LET n == FirstMatch(c.result, right_tuple)
               IN /\ ht_latch' = Unlatch(c.latch, idx.block_index, "READ")
                  /\ ht_pin' = HtUnpin(c.pin, idx.block_index)
                  /\ hj' = IF n = 0
                             THEN [hj EXCEPT !.pc = "next", !.cursor = j]
                             ELSE [hj EXCEPT !.pc = "ready", !.cursor = j,
                                             !.ret = TRUE,
                                             !.out = Append(@, <<hj.tmp[c.result[n]], j>>)]
                  /\ UNCHANGED ht_hung
  /\ UNCHANGED <<num_buckets, hash_fn_, num_blocks, table_latch_, ht_thr, ht_ret,
                 ht_abs, ht_blocks, block_page, block_ret, victim_pc, bpmVars,
                 histVars, logVars, recVars>>

\* HashJoinExecutor::Next, lines 67 and 96: the right child is exhausted and
\* the call returns false.
HashJoinNextEnd ==
  /\ hj.pc \in {"ready", "next"} /\ hj.cursor = Len(hj.right)
  /\ hj' = [hj EXCEPT !.pc = "eof", !.ret = FALSE]
  /\ UNCHANGED <<block_page, block_ret, victim_pc, bpmVars, histVars, logVars,
                 htVars, recVars>>

(***************************************************************************)
(* Table pages and transactions: the producers of the log that recovery    *)
(* reads.  TablePage, the lock manager and the transaction manager are not *)
(* among the sources; a table page is modelled with one tuple slot, a      *)
(* tuple is changed by one transaction at a time, and every change is      *)
(* logged before the page is stamped with the LSN of its record.           *)
(***************************************************************************)
\* An empty slot.
NoTuple == [v |-> 0, del |-> FALSE]

\* A page of zeroes: what FetchPage reads for a page that was never written.
ZeroPage == [init |-> FALSE, lsn |-> 0, tuple |-> NoTuple, next_page_id |-> 0]

\* The first page of a table heap, created without logging.
FirstPage == [init |-> TRUE, lsn |-> 0, tuple |-> NoTuple,
              next_page_id |-> INVALID_PAGE_ID]

\* TablePage::Init
TpInit(page) ==
  [page EXCEPT !.init = TRUE, !.tuple = NoTuple, !.next_page_id = INVALID_PAGE_ID]

\* TablePage::InsertTuple(tuple, rid): the tuple is stored at rid.
InsertTuple(page, tuple) == [page EXCEPT !.tuple = [v |-> tuple, del |-> FALSE]]

\* TablePage::UpdateTuple(new_tuple, old_tuple, rid)
UpdateTuple(page, new_tuple) ==
  IF page.tuple.v = 0 THEN page ELSE [page EXCEPT !.tuple.v = new_tuple]

\* TablePage::MarkDelete(rid)
MarkDelete(page) ==
  IF page.tuple.v = 0 THEN page ELSE [page EXCEPT !.tuple.del = TRUE]

\* TablePage::ApplyDelete(rid)
ApplyDelete(page) == [page EXCEPT !.tuple = NoTuple]

\* TablePage::RollbackDelete(rid)
RollbackDelete(page) ==
  IF page.tuple.v = 0 THEN page ELSE [page EXCEPT !.tuple.del = FALSE]

\* Page::SetLSN
TpSetLSN(page, lsn) == [page EXCEPT !.lsn = lsn]

\* LogRecord::size_: a record is its header, or its header and a body.
RecordSize(type) == IF type \in {"BEGIN", "COMMIT", "ABORT"} THEN 1 ELSE MaxRecSize

\* A default-constructed LogRecord.
NoRecord ==
  [lsn |-> INVALID_LSN, size |-> 0, txn_id |-> -1, prev_lsn |-> INVALID_LSN,
   log_record_type |-> "INVALID", page_id |-> INVALID_PAGE_ID,
   prev_page_id |-> INVALID_PAGE_ID, tuple |-> 0, old_tuple |-> 0]

\* The LogRecord constructors: page_id is the page of the rid (of the new page
\* for NEWPAGE), tuple the inserted, deleted or new tuple.
LogRecord(type, txn_id, prev_lsn, page_id, tuple, old_tuple, prev_page_id) ==
  [lsn |-> INVALID_LSN, size |-> RecordSize(type), txn_id |-> txn_id,
   prev_lsn |-> prev_lsn, log_record_type |-> type, page_id |-> page_id,
   prev_page_id |-> prev_page_id, tuple |-> tuple, old_tuple |-> old_tuple]

\* AppendLogRecord, lines 81-117: the record with its LSN, header and body,
\* serialised at log_buffer_offset_.
SerializeRecord(buf, rec, lsn) == Append(buf, [rec EXCEPT !.lsn = lsn])

\* LogManager::AppendLogRecord(rec) by a transaction; a record that does not
\* fit waits for the flush thread (line 77).
LogAppend(rec) ==
  /\ next_lsn_ < MaxRecLsn
  /\ rec.size + log_buffer_offset_ <= LOG_BUFFER_SIZE
  /\ next_lsn_' = next_lsn_ + 1
  /\ log_buffer_' = SerializeRecord(log_buffer_, rec, next_lsn_)
  /\ log_buffer_offset_' = log_buffer_offset_ + rec.size
  /\ UNCHANGED <<enable_logging, need_flush_, persistent_lsn_, log_file, ft_pc, thr,
                 stop_pc, stop_from, log_ret, handed>>

\* Transaction t may change the tuple of page p.
CanLock(t, p) == tp_mem[p].init /\ tx_lock[p] \in {-1, t}

\* The locks, and the tuples found when they were taken, after t locked p.
LockOf(t, p) == [tx_lock EXCEPT ![p] = t]
BeforeOf(t, p) == IF tx_lock[p] = t THEN tx_before
                                    ELSE [tx_before EXCEPT ![p] = tp_mem[p].tuple]

\* The locks and tx_before after t released its locks.
Released(t) == [p \in TablePages |-> IF tx_lock[p] = t THEN -1 ELSE tx_lock[p]]
Forgotten(t) == [p \in TablePages |-> IF tx_lock[p] = t THEN NoTuple ELSE tx_before[p]]

\* One logged step of transaction t: the record is appended, the pages are
\* changed and stamped.
TxnLog(t, rec, mem, lock, before, status) ==
  /\ rec_pc = "run"
  /\ LogAppend(rec)
  /\ tp_mem' = mem
  /\ tx' = [tx EXCEPT ![t] = [status |-> status, prev_lsn |-> next_lsn_]]
  /\ tx_lock' = lock
  /\ tx_before' = before
  /\ UNCHANGED <<tp_disk, rec_pc, active_txn_, lsn_mapping_, offset_,
                 bpmVars, histVars, extVars, htVars>>

\* TransactionManager::Begin: the transaction ids are handed out in order.
TxnBegin(t) ==
  /\ tx[t].status = "none"
  /\ \A u \in Txns : u < t => tx[u].status # "none"
  /\ TxnLog(t, LogRecord("BEGIN", t, INVALID_LSN, INVALID_PAGE_ID, 0, 0, INVALID_PAGE_ID),
            tp_mem, tx_lock, tx_before, "active")

\* TableHeap: transaction t adds the next page to the table.
TxnNewPage(t) ==
  /\ tx[t].status = "active"
  /\ \E p \in TablePages :
       /\ ~tp_mem[p].init
       /\ \A q \in TablePages : q < p => tp_mem[q].init
       /\ LET prev == IF p = 0 THEN INVALID_PAGE_ID ELSE p - 1
              m1 == [tp_mem EXCEPT ![p] = TpSetLSN(TpInit(@), next_lsn_)]
              m2 == IF prev = INVALID_PAGE_ID THEN m1
                    ELSE [m1 EXCEPT ![prev].next_page_id = p]
          IN TxnLog(t, LogRecord("NEWPAGE", t, tx[t].prev_lsn, p, 0, 0, prev),
                    m2, tx_lock, tx_before, "active")

\* TablePage::InsertTuple with logging.
TxnInsert(t, p, v) ==
  /\ tx[t].status = "active" /\ CanLock(t, p)
  /\ tp_mem[p].tuple.v = 0
  /\ TxnLog(t, LogRecord("INSERT", t, tx[t].prev_lsn, p, v, 0, INVALID_PAGE_ID),
            [tp_mem EXCEPT ![p] = TpSetLSN(InsertTuple(@, v), next_lsn_)],
            LockOf(t, p), BeforeOf(t, p), "active")

\* TablePage::UpdateTuple with logging.
TxnUpdate(t, p, v) ==
  /\ tx[t].status = "active" /\ CanLock(t, p)
  /\ tp_mem[p].tuple.v # 0 /\ ~tp_mem[p].tuple.del /\ tp_mem[p].tuple.v # v
  /\ TxnLog(t, LogRecord("UPDATE", t, tx[t].prev_lsn, p, v, tp_mem[p].tuple.v,
                         INVALID_PAGE_ID),
            [tp_mem EXCEPT ![p] = TpSetLSN(UpdateTuple(@, v), next_lsn_)],
            LockOf(t, p), BeforeOf(t, p), "active")

\* TablePage::MarkDelete with logging.
TxnMarkDelete(t, p) ==
  /\ tx[t].status = "active" /\ CanLock(t, p)
  /\ tp_mem[p].tuple.v # 0 /\ ~tp_mem[p].tuple.del
  /\ TxnLog(t, LogRecord("MARKDELETE", t, tx[t].prev_lsn, p, tp_mem[p].tuple.v, 0,
                         INVALID_PAGE_ID),
            [tp_mem EXCEPT ![p] = TpSetLSN(MarkDelete(@), next_lsn_)],
            LockOf(t, p), BeforeOf(t, p), "active")

\* TablePage::ApplyDelete with logging: t removes a tuple it marked (on its
\* way to commit) or one it inserted (on its way to abort).
TxnApplyDelete(t, p) ==
  /\ tx[t].status = "active" /\ tp_mem[p].init /\ tx_lock[p] = t
  /\ tp_mem[p].tuple.v # 0
  /\ tp_mem[p].tuple.del \/ tx_before[p].v = 0
  /\ TxnLog(t, LogRecord("APPLYDELETE", t, tx[t].prev_lsn, p, tp_mem[p].tuple.v, 0,
                         INVALID_PAGE_ID),
            [tp_mem EXCEPT ![p] = TpSetLSN(ApplyDelete(@), next_lsn_)],
            tx_lock, tx_before, "active")

\* TablePage::RollbackDelete with logging: t takes back its delete mark.
TxnRollbackDelete(t, p) ==
  /\ tx[t].status = "active" /\ tp_mem[p].init /\ tx_lock[p] = t
  /\ tp_mem[p].tuple.v # 0 /\ tp_mem[p].tuple.del
  /\ TxnLog(t, LogRecord("ROLLBACKDELETE", t, tx[t].prev_lsn, p, tp_mem[p].tuple.v, 0,
                         INVALID_PAGE_ID),
            [tp_mem EXCEPT ![p] = TpSetLSN(RollbackDelete(@), next_lsn_)],
            tx_lock, tx_before, "active")

\* TransactionManager::Commit: the deletes of t were applied.
TxnCommit(t) ==
  /\ tx[t].status = "active"
  /\ \A p \in TablePages : tx_lock[p] = t => ~tp_mem[p].tuple.del
  /\ TxnLog(t, LogRecord("COMMIT", t, tx[t].prev_lsn, INVALID_PAGE_ID, 0, 0,
                         INVALID_PAGE_ID),
            tp_mem, Released(t), Forgotten(t), "ended")

\* TransactionManager::Abort: the changes of t were taken back.
TxnAbort(t) ==
  /\ tx[t].status = "active"
  /\ \A p \in TablePages : tx_lock[p] = t => tp_mem[p].tuple = tx_before[p]
  /\ TxnLog(t, LogRecord("ABORT", t, tx[t].prev_lsn, INVALID_PAGE_ID, 0, 0,
                         INVALID_PAGE_ID),
            tp_mem, Released(t), Forgotten(t), "ended")

\* The buffer pool writes table page p to the data file; the log was forced
\* up to the LSN of the page first (GetVictimFrameId, lines 196-201).
TpWritePage(p) ==
  /\ rec_pc = "run"
  /\ tp_mem[p] # tp_disk[p]
  /\ persistent_lsn_ >= tp_mem[p].lsn
  /\ tp_disk' = [tp_disk EXCEPT ![p] = tp_mem[p]]
  /\ UNCHANGED <<tp_mem, tx, tx_lock, tx_before, rec_pc, active_txn_, lsn_mapping_,
                 offset_, bpmVars, histVars, extVars, logVars, htVars>>

\* One round of the flush thread (RunFlushThread, lines 32-46) while the
\* transactions run: it wakes up with something buffered and writes it.
FlushThreadRound ==
  /\ rec_pc = "run" /\ ft_pc = "loop" /\ enable_logging
  /\ log_buffer_offset_ > 0
  /\ LET r == FlushBuffers(log_file, log_buffer_, log_buffer_offset_,
                           persistent_lsn_, next_lsn_) IN
     /\ log_file' = r.file
     /\ log_buffer_' = r.buf
     /\ log_buffer_offset_' = r.offset
     /\ persistent_lsn_' = r.persistent
  /\ need_flush_' = FALSE
  /\ UNCHANGED <<enable_logging, next_lsn_, ft_pc, thr, stop_pc, stop_from, log_ret, handed,
                 bpmVars, histVars, extVars, htVars, recVars>>

\* The system stops without notice: the buffer pool, the log buffer and the
\* transactions are lost, the data file and the log file stay.  Recovery
\* starts on a new system, with logging off, fetching the pages from the
\* data file.
Crash ==
  /\ rec_pc = "run"
  /\ rec_pc' = "crashed"
  /\ tp_mem' = tp_disk
  /\ tx' = [t \in Txns |-> [status |-> "none", prev_lsn |-> INVALID_LSN]]
  /\ tx_lock' = [p \in TablePages |-> -1]
  /\ tx_before' = [p \in TablePages |-> NoTuple]
  /\ enable_logging' = FALSE
  /\ need_flush_' = FALSE
  /\ next_lsn_' = 0
  /\ persistent_lsn_' = INVALID_LSN
  /\ log_buffer_' = <<>>
  /\ log_buffer_offset_' = 0
  /\ ft_pc' = "none"
  /\ UNCHANGED <<tp_disk, active_txn_, lsn_mapping_, offset_, log_file, thr, stop_pc, stop_from,
                 log_ret, handed, bpmVars, histVars, extVars, htVars>>

(***************************************************************************)
(* Log recovery (log_recovery.cpp).  The log file is the sequence of the   *)
(* records written; the offset of a record is the sum of the sizes of the  *)
(* records before it.  Recovery runs alone, with a buffer pool that keeps  *)
(* every table page it fetched.                                            *)
(***************************************************************************)
\* The bytes a record takes in the log file: what its type takes, whatever
\* its size field says.
Extent(r) == RecordSize(r.log_record_type)

\* The offset of the j-th record of the log file (of its end for j = Len + 1).
RECURSIVE OffsetOf(_, _)
OffsetOf(file, j) == IF j <= 1 THEN 0 ELSE OffsetOf(file, j - 1) + Extent(file[j - 1])

\* DiskManager::ReadLog(log_buffer_, LOG_BUFFER_SIZE, offset): false at or
\* after the end of the log file; the bytes after the end are read as zeroes.
ReadLog(file, offset) == offset < OffsetOf(file, Len(file) + 1)

\* The record that log_buffer_ + pos holds after ReadLog at offset: a record of
\* the log file, or zeroes.
RecordAt(file, offset) ==
  IF \E j \in 1 .. Len(file) : OffsetOf(file, j) = offset
    THEN file[CHOOSE j \in 1 .. Len(file) : OffsetOf(file, j) = offset]
    ELSE NoRecord

\* LogRecovery::DeserializeLogRecord(log_buffer_ + pos, &log_record).  For a
\* record whose header lies partly or wholly behind the buffer, the size read
\* at line 26 is positive only if it is larger than what is left of the buffer.
DeserializeLogRecord(file, offset, pos) ==
  LET record == RecordAt(file, offset + pos) IN
  IF record.size <= 0 \/ pos + record.size > LOG_BUFFER_SIZE
       \/ record.log_record_type = "INVALID"
    THEN [ok |-> FALSE, record |-> NoRecord]
    ELSE [ok |-> TRUE, record |-> record]

\* Redo, lines 105, 117, 132-138, 157-168: the change of a record is made again.
ReplayRecord(pages, r) ==
  LET p == r.page_id IN
  CASE r.log_record_type = "INSERT" -> [pages EXCEPT ![p] = InsertTuple(@, r.tuple)]
    [] r.log_record_type = "UPDATE" -> [pages EXCEPT ![p] = UpdateTuple(@, r.tuple)]
    [] r.log_record_type = "MARKDELETE" -> [pages EXCEPT ![p] = MarkDelete(@)]
    [] r.log_record_type = "APPLYDELETE" -> [pages EXCEPT ![p] = ApplyDelete(@)]
    [] r.log_record_type = "ROLLBACKDELETE" -> [pages EXCEPT ![p] = RollbackDelete(@)]
    [] r.log_record_type = "NEWPAGE" ->
         LET p1 == [pages EXCEPT ![p] = TpInit(@)] IN
         IF r.prev_page_id # INVALID_PAGE_ID /\ p1[r.prev_page_id].next_page_id # p
           THEN [p1 EXCEPT ![r.prev_page_id].next_page_id = p]
           ELSE p1
    [] OTHER -> pages

\* Variant of RedoRecord: a record is replayed on a page that is not older.
RedoRecordNewer(pages, r) ==
  IF r.log_record_type \in {"BEGIN", "COMMIT", "ABORT"} THEN pages
  ELSE IF pages[r.page_id].lsn > r.lsn THEN ReplayRecord(pages, r) ELSE pages

\* Redo, lines 100-177: the record is replayed if its page is older than it.
RedoRecord(pages, r) ==
  IF r.log_record_type \in {"BEGIN", "COMMIT", "ABORT"} THEN pages
  ELSE IF pages[r.page_id].lsn < r.lsn THEN ReplayRecord(pages, r) ELSE pages

\* Redo, lines 109, 122, 142, 171: the is_dirty argument of the UnpinPage of
\* the page of the record, page->GetLSN() < lsn read after the replay.
RedoUnpinDirty(pages, r) ==
  /\ r.log_record_type \notin {"BEGIN", "COMMIT", "ABORT"}
  /\ RedoRecord(pages, r)[r.page_id].lsn < r.lsn

\* active_txn_ after a record, lines 96 and 146-149.
RedoTxn(active, r) ==
  IF r.log_record_type \in {"COMMIT", "ABORT"}
    THEN [t \in DOMAIN active \ {r.txn_id} |-> active[t]]
    ELSE (r.txn_id :> r.lsn) @@ active

\* Redo, lines 90-178: the records of one buffer-full, from pos on.
RECURSIVE RedoBuffer(_, _, _)
RedoBuffer(file, st, pos) ==
  LET d == DeserializeLogRecord(file, st.offset_, pos) IN
  IF ~d.ok THEN [st EXCEPT !.pos = pos]
  ELSE RedoBuffer(file,
                  [st EXCEPT !.lsn_mapping_ = (d.record.lsn :> (st.offset_ + pos)) @@ @,
                             !.active_txn_ = RedoTxn(@, d.record),
                             !.pages = RedoRecord(@, d.record)],
                  pos + d.record.size)

\* Redo, lines 84-181: buffer-full after buffer-full.  When no record of a
\* buffer-full is read, offset_ stays and the loop reads the same bytes again.
RECURSIVE RedoLoop(_, _)
RedoLoop(file, st) ==
  IF ~ReadLog(file, st.offset_) THEN st
  ELSE LET s1 == RedoBuffer(file, st, 0) IN
       IF s1.pos = 0 THEN [s1 EXCEPT !.hung = TRUE]
       ELSE RedoLoop(file, [s1 EXCEPT !.offset_ = @ + s1.pos])

\* LogRecovery::Redo
Redo ==
  /\ rec_pc \in {"crashed", "restarted"}
  /\ LET st == RedoLoop(log_file, [pages |-> tp_mem, active_txn_ |-> active_txn_,
                                   lsn_mapping_ |-> lsn_mapping_, offset_ |-> offset_,
                                   pos |-> 0, hung |-> FALSE]) IN
     /\ tp_mem' = st.pages
     /\ active_txn_' = st.active_txn_
     /\ lsn_mapping_' = st.lsn_mapping_
     /\ offset_' = st.offset_
     /\ rec_pc' = IF st.hung THEN "redo_hung"
                  ELSE IF rec_pc = "crashed" THEN "redone" ELSE "redone_again"
  /\ UNCHANGED <<tp_disk, tx, tx_lock, tx_before, bpmVars, histVars, extVars, logVars, htVars>>

\* Variant of UndoRecord: an insert is left in place.
UndoRecordKeepInsert(pages, r) ==
  LET p == r.page_id IN
  CASE r.log_record_type = "UPDATE" -> [pages EXCEPT ![p] = UpdateTuple(@, r.old_tuple)]
    [] r.log_record_type = "MARKDELETE" -> [pages EXCEPT ![p] = RollbackDelete(@)]
    [] r.log_record_type = "APPLYDELETE" -> [pages EXCEPT ![p] = InsertTuple(@, r.tuple)]
    [] r.log_record_type = "ROLLBACKDELETE" -> [pages EXCEPT ![p] = MarkDelete(@)]
    [] OTHER -> pages

\* Undo, lines 199-238: the change of a record is taken back.
UndoRecord(pages, r) ==
  LET p == r.page_id IN
  CASE r.log_record_type = "INSERT" -> [pages EXCEPT ![p] = ApplyDelete(@)]
    [] r.log_record_type = "UPDATE" -> [pages EXCEPT ![p] = UpdateTuple(@, r.old_tuple)]
    [] r.log_record_type = "MARKDELETE" -> [pages EXCEPT ![p] = RollbackDelete(@)]
    [] r.log_record_type = "APPLYDELETE" -> [pages EXCEPT ![p] = InsertTuple(@, r.tuple)]
    [] r.log_record_type = "ROLLBACKDELETE" -> [pages EXCEPT ![p] = MarkDelete(@)]
    [] OTHER -> pages

\* UndoChain that stops after the last record of the transaction.
UndoChainLastOnly(file, mapping, pages, lsn) ==
  IF lsn = INVALID_LSN THEN pages
  ELSE LET offset == IF lsn \in DOMAIN mapping THEN mapping[lsn] ELSE 0
           d == DeserializeLogRecord(file, offset, 0)
       IN UndoRecord(pages, d.record)

\* Undo, lines 190-239: the records of one transaction, from lsn back along
\* the prev-LSN chain.  lsn_mapping_[lsn] is 0 for an LSN redo did not see, and
\* a record that cannot be read is a default LogRecord.
RECURSIVE UndoChain(_, _, _, _)
UndoChain(file, mapping, pages, lsn) ==
  IF lsn = INVALID_LSN THEN pages
  ELSE LET offset == IF lsn \in DOMAIN mapping THEN mapping[lsn] ELSE 0
           d == DeserializeLogRecord(file, offset, 0)
       IN UndoChain(file, mapping, UndoRecord(pages, d.record), d.record.prev_lsn)

\* Undo, line 189: the transactions of active_txn_, in the order of order.
RECURSIVE UndoTxns(_, _, _, _, _)
UndoTxns(file, mapping, active, pages, order) ==
  IF order = <<>> THEN pages
  ELSE UndoTxns(file, mapping, active,
                UndoChain(file, mapping, pages, active[Head(order)]), Tail(order))

\* The orders in which the loop at line 189 can go through the set S.
Orders(S) ==
  {s \in [1 .. Cardinality(S) -> S] : \A i, j \in 1 .. Cardinality(S) : s[i] = s[j] => i = j}

\* Undo that leaves the loop of line 189 after the first transaction.
UndoFirstOnly ==
  /\ rec_pc \in {"redone", "redone_again"}
  /\ \E order \in Orders(DOMAIN active_txn_) :
       tp_mem' = UndoTxns(log_file, lsn_mapping_, active_txn_, tp_mem,
                          IF order = <<>> THEN <<>> ELSE <<Head(order)>>)
  /\ active_txn_' = <<>>
  /\ lsn_mapping_' = <<>>
  /\ rec_pc' = IF rec_pc = "redone" THEN "recovered" ELSE "recovered_again"
  /\ UNCHANGED <<tp_disk, tx, tx_lock, tx_before, offset_,
                 bpmVars, histVars, extVars, logVars, htVars>>
\* LogRecovery::Undo
Undo ==
  /\ rec_pc \in {"redone", "redone_again"}
  /\ \E order \in Orders(DOMAIN active_txn_) :
       tp_mem' = UndoTxns(log_file, lsn_mapping_, active_txn_, tp_mem, order)
  /\ active_txn_' = <<>>
  /\ lsn_mapping_' = <<>>
  /\ rec_pc' = IF rec_pc = "redone" THEN "recovered" ELSE "recovered_again"
  /\ UNCHANGED <<tp_disk, tx, tx_lock, tx_before, offset_,
                 bpmVars, histVars, extVars, logVars, htVars>>

\* The log file is damaged while the system is down: the size field of the
\* header of its j-th record reads as size, which is not positive or is larger
\* than the prefetch buffer.
CorruptLog(j, size) ==
  /\ rec_pc = "crashed"
  /\ j \in 1 .. Len(log_file)
  /\ \A i \in 1 .. Len(log_file) : log_file[i].size = Extent(log_file[i])
  /\ log_file' = [log_file EXCEPT ![j].size = size]
  /\ UNCHANGED <<enable_logging, need_flush_, next_lsn_, persistent_lsn_, log_buffer_,
                 log_buffer_offset_, ft_pc, thr, stop_pc, stop_from, log_ret, handed,
                 bpmVars, histVars, extVars, htVars, recVars>>

\* The system is shut down after recovery, which writes every page to the data
\* file (flush_all_pages), and is started again over the same log file:
\* recovery runs a second time, with a new LogRecovery.
Restart ==
  /\ rec_pc = "recovered"
  /\ rec_pc' = "restarted"
  /\ tp_disk' = tp_mem
  /\ active_txn_' = <<>>
  /\ lsn_mapping_' = <<>>
  /\ offset_' = 0
  /\ UNCHANGED <<tp_mem, tx, tx_lock, tx_before, bpmVars, histVars, extVars, logVars, htVars>>

(***************************************************************************)
(* Initial states.                                                         *)
(***************************************************************************)
\* BufferPoolManager::BufferPoolManager and an empty data file (a page never
\* written reads as zeroes).
InitPool ==
  /\ pages_ = [f \in Frames |-> [page_id_ |-> INVALID_PAGE_ID, pin_count_ |-> 0,
                                 is_dirty_ |-> FALSE, data_ |-> 0, lsn_ |-> 0,
                                 stamped |-> FALSE]]
  /\ page_table_ = [q \in PageIds |-> -1]
  /\ free_list_ = [i \in 1 .. PoolSize |-> i - 1]
  /\ clock_hand_ = -1
  /\ disk = [q \in PageIds |-> [data |-> 0, lsn |-> 0, stamped |-> FALSE]]
  /\ next_page_id = 0
  /\ bpm_pc = IdlePc
  /\ bpm_ret = BpmRet("init", INVALID_PAGE_ID, TRUE)
  /\ crashed = FALSE
  /\ latest = 0
  /\ tracked = FALSE
  /\ pending = FALSE
  /\ candidates = {}

\* ClockReplacer::ClockReplacer(num_pages); clock_hand_ is set in InitPool.
InitReplacer(num_pages) ==
  /\ frames_ = [f \in 0 .. num_pages - 1 |-> [contains |-> FALSE, ref |-> FALSE]]
  /\ victim_pc = [t \in Threads |-> "idle"]

InitBpm == InitPool /\ InitReplacer(PoolSize)

\* LogManager::LogManager: logging is off and no flush thread runs.
InitLog ==
  /\ enable_logging = FALSE
  /\ need_flush_ = FALSE
  /\ next_lsn_ = 0
  /\ persistent_lsn_ = INVALID_LSN
  /\ log_buffer_ = <<>>
  /\ log_buffer_offset_ = 0
  /\ log_file = <<>>
  /\ ft_pc = "none"
  /\ thr = [t \in Threads |-> IdleThr]
  /\ stop_pc = "idle"
  /\ stop_from = INVALID_LSN
  /\ log_ret = LogRet("init", 0, INVALID_LSN, INVALID_LSN)
  /\ handed = <<>>

\* A zeroed block page.
\* LinearProbeHashTable::LinearProbeHashTable and InitHeaderPage: the block
\* pages are new, zeroed pages.
InitTable(n, h) ==
  /\ num_buckets = n
  /\ hash_fn_ = h
  /\ ht_blocks = [b \in Blocks |-> EmptyBlock]
  /\ ht_latch = [b \in Blocks |-> [readers |-> 0, writer |-> FALSE]]
  /\ ht_pin = [b \in Blocks |-> 0]
  /\ ht_hung = FALSE
  /\ ht_ret = [op |-> "init", key |-> 0, value |-> 0, ok |-> TRUE, result |-> <<>>]
  /\ ht_abs = {}
  /\ num_blocks = n
  /\ table_latch_ = [readers |-> 0, writer |-> FALSE]
  /\ ht_thr = [t \in Threads |-> IdleCall]
  /\ InitBlockPage
  /\ hj = NoJoin

InitHt == InitTable(1, [k \in Keys |-> 0])

\* The table heap was created with its first page, page 0, and the page was
\* written, before logging was switched on; no transaction runs;
\* LogRecovery::LogRecovery.
InitRec ==
  /\ tp_mem = [p \in TablePages |-> IF p = 0 THEN FirstPage ELSE ZeroPage]
  /\ tp_disk = [p \in TablePages |-> IF p = 0 THEN FirstPage ELSE ZeroPage]
  /\ tx = [t \in Txns |-> [status |-> "none", prev_lsn |-> INVALID_LSN]]
  /\ tx_lock = [p \in TablePages |-> -1]
  /\ tx_before = [p \in TablePages |-> NoTuple]
  /\ rec_pc = "run"
  /\ active_txn_ = <<>>
  /\ lsn_mapping_ = <<>>
  /\ offset_ = 0

Init == watch = INVALID_PAGE_ID /\ observe = TRUE /\ InitBpm /\ InitLog /\ InitHt /\ InitRec

\* The same, with a client that writes the contents of one page.
InitData == watch \in PageIds /\ observe = FALSE /\ InitBpm /\ InitLog /\ InitHt /\ InitRec

\* The log manager after RunFlushThread: logging is on and the flush thread runs.
InitLogRunning ==
  /\ enable_logging = TRUE
  /\ need_flush_ = FALSE
  /\ next_lsn_ = 0
  /\ persistent_lsn_ = INVALID_LSN
  /\ log_buffer_ = <<>>
  /\ log_buffer_offset_ = 0
  /\ log_file = <<>>
  /\ ft_pc = "loop"
  /\ thr = [t \in Threads |-> IdleThr]
  /\ stop_pc = "idle"
  /\ stop_from = INVALID_LSN
  /\ log_ret = LogRet("run", 0, INVALID_LSN, INVALID_LSN)
  /\ handed = <<>>

\* The system started with logging, nothing recorded or followed.
InitWAL ==
  watch = INVALID_PAGE_ID /\ observe = FALSE /\ InitBpm /\ InitLogRunning /\ InitHt /\ InitRec

\* A hash table built with n block pages and the hash function h.
InitHash ==
  /\ watch = INVALID_PAGE_ID /\ observe = TRUE /\ InitBpm /\ InitLog /\ InitRec
  /\ \E n \in 1 .. MaxBlocks, h \in [Keys -> 0 .. MaxHash] : InitTable(n, h)

\* A system that logs: the transactions work on the table pages.
InitRecovery ==
  watch = INVALID_PAGE_ID /\ observe = FALSE /\ InitBpm /\ InitLogRunning /\ InitHt /\ InitRec

vars == <<bpmVars, histVars, extVars, logVars, htVars, recVars>>

(***************************************************************************)
(* The buffer pool alone, logging disabled.                                *)
(***************************************************************************)
NextBpm ==
  \/ \E q \in PageIds : q < next_page_id /\ FetchPageImpl(q)
  \/ NewPageImpl
  \/ \E q \in PageIds, d \in BOOLEAN : UnpinPageImpl(q, d)
  \/ \E q \in PageIds : FlushPageImpl(q)
  \/ \E q \in PageIds : DeletePageImpl(q)
  \/ FlushAllPagesImpl
  \/ VictimAssertFails

SpecBpm == Init /\ [][NextBpm]_vars

(***************************************************************************)
(* The buffer pool with a client that writes page contents.                *)
(***************************************************************************)
NextBpmData ==
  \/ \E q \in PageIds : q < next_page_id /\ FetchPageImpl(q)
  \/ NewPageImpl
  \/ \E q \in PageIds, d \in BOOLEAN : UnpinPageImpl(q, d)
  \/ \E q \in PageIds : FlushPageImpl(q)
  \/ \E q \in PageIds : DeletePageImpl(q)
  \/ FlushAllPagesImpl
  \/ \E d \in DataVals : WriteData(d)
  \/ VictimAssertFails

SpecBpmData == InitData /\ [][NextBpmData]_vars

(***************************************************************************)
(* The log manager alone: threads that append and flush, the flush thread, *)
(* and a thread that starts and stops logging.                             *)
(***************************************************************************)
NextLog ==
  \/ \E t \in Threads, s \in RecSizes : AppendLogRecord(t, s, -1)
  \/ \E t \in Threads : AppendResume(t)
  \/ \E t \in Threads : FlushBegin(t)
  \/ \E t \in Threads : FlushLock(t)
  \/ \E t \in Threads : FlushReturn(t)
  \/ FlushThreadCheck
  \/ FlushThreadWake
  \/ RunFlushThread
  \/ StopFlushThread
  \/ StopJoin

SpecLog == Init /\ [][NextLog]_vars

(***************************************************************************)
(* The log manager with threads that go on: the flush thread runs whenever *)
(* it can (its wait has a timeout), a thread inside Flush or               *)
(* AppendLogRecord goes on when it can, and a thread that waits on         *)
(* cv_append_ and whose condition holds again and again gets latch_ at one *)
(* of these times.                                                         *)
(***************************************************************************)
LogFairness ==
  /\ WF_vars(FlushThreadCheck)
  /\ WF_vars(FlushThreadWake)
  /\ WF_vars(StopJoin)
  /\ \A t \in Threads : /\ WF_vars(FlushLock(t))
                        /\ SF_vars(FlushReturn(t))
                        /\ SF_vars(AppendResume(t))

SpecLogFair == Init /\ [][NextLog]_vars /\ LogFairness

(***************************************************************************)
(* The buffer pool with logging: one client thread logs changes of pinned  *)
(* pages while the flush thread runs.                                      *)
(***************************************************************************)
WalThread == 1
MaxWalLsn == 2     \* the client logs at most MaxWalLsn changes, in records of size 1

\* The client unpins a page only after it has stamped it: an unpin_page(q, .)
\* that would drop the pin of a thread between AppendLogRecord and SetLSN
\* is not called.
KeepsClientPin(q) ==
  \A t \in Threads :
    (thr[t].pc \in {"append_wait", "stamp"} /\ page_table_[q] = thr[t].frame)
      => pages_[thr[t].frame].pin_count_ > 1

NextWAL ==
  \/ \E q \in PageIds : q < next_page_id /\ FetchPageImpl(q)
  \/ NewPageImpl
  \/ \E q \in PageIds, d \in BOOLEAN : KeepsClientPin(q) /\ UnpinPageImpl(q, d)
  \/ \E q \in PageIds : DeletePageImpl(q)
  \/ EvictFinish
  \/ BpmFlushBegin
  \/ BpmFlushLock
  \/ BpmFlushReturn
  \/ \E f \in Frames : next_lsn_ < MaxWalLsn /\ AppendLogRecord(WalThread, 1, f)
  \/ SetLSN(WalThread)
  \/ FlushThreadCheck
  \/ FlushThreadWake

SpecWAL == InitWAL /\ [][NextWAL]_vars

\* The pages are created, logged, unpinned, flushed by flush_page and
\* flush_all_pages, and replaced by new pages.
NextWALFlush ==
  \/ NewPageImpl
  \/ \E q \in PageIds, d \in BOOLEAN : KeepsClientPin(q) /\ UnpinPageImpl(q, d)
  \/ \E q \in PageIds : FlushPageImpl(q)
  \/ FlushAllPagesImpl
  \/ EvictFinish
  \/ BpmFlushBegin
  \/ BpmFlushLock
  \/ BpmFlushReturn
  \/ \E f \in Frames : next_lsn_ < MaxWalLsn /\ AppendLogRecord(WalThread, 1, f)
  \/ SetLSN(WalThread)
  \/ FlushThreadCheck
  \/ FlushThreadWake

SpecWALFlush == InitWAL /\ [][NextWALFlush]_vars

(***************************************************************************)
(* The hash table: one thread inserts, removes and looks up pairs.         *)
(***************************************************************************)
NextHt ==
  \/ \E k \in Keys : GetValue(k)
  \/ \E k \in Keys, v \in Values : Insert(k, v)
  \/ \E k \in Keys, v \in Values : Remove(k, v)

SpecHt == InitHash /\ [][NextHt]_vars

(***************************************************************************)
(* The hash table shared by threads: every thread that can take a step     *)
(* again and again takes one (the scheduler starves no thread, and a latch  *)
(* that is free again and again is obtained).                              *)
(***************************************************************************)
ResizeSizes == {s \in 1 .. (MaxBlocks * BLOCK_ARRAY_SIZE) :
                  (2 * s) \div BLOCK_ARRAY_SIZE \in 1 .. MaxBlocks}

ThreadStep(t) ==
  \/ \E k \in Keys : HtCall(t, "get", k, 0)
  \/ \E k \in Keys : HtCall(t, "insert", k, 0)
  \/ \E k \in Keys : HtCall(t, "remove", k, 0)
  \/ \E s \in ResizeSizes : ResizeCall(t, s)
  \/ TableRLock(t)
  \/ GetValueBody(t)
  \/ InsertBody(t)
  \/ RemoveBody(t)
  \/ TableWLock(t)
  \/ ResizeBody(t)

NextHtShared == \E t \in Threads : ThreadStep(t)

InitHtShared ==
  /\ watch = INVALID_PAGE_ID /\ observe = TRUE /\ InitBpm /\ InitLog /\ InitRec
  /\ \E h \in [Keys -> 0 .. 1] : InitTable(1, h)

SpecHtShared ==
  InitHtShared /\ [][NextHtShared]_vars /\ \A t \in Threads : SF_vars(ThreadStep(t))

(***************************************************************************)
(* The hash table of one block page, with any hash function, used and      *)
(* resized by one thread.                                                  *)
(***************************************************************************)
InitHtResize ==
  /\ watch = INVALID_PAGE_ID /\ observe = TRUE /\ InitBpm /\ InitLog /\ InitRec
  /\ \E h \in [Keys -> 0 .. MaxHash] : InitTable(1, h)

NextHtResize == \E t \in {1} : ThreadStep(t)

SpecHtResize == InitHtResize /\ [][NextHtResize]_vars

(***************************************************************************)
(* A hash join: the executor is constructed over two children and a join   *)
(* hash table, Init builds the table and Next is called until it returns   *)
(* false.                                                                  *)
(***************************************************************************)
InitJoin ==
  /\ watch = INVALID_PAGE_ID /\ observe = TRUE /\ InitBpm /\ InitLog /\ InitRec
  /\ \E n \in 1 .. MaxBlocks, h \in [Keys -> 0 .. 1] : InitTable(n, h)

NextJoin ==
  \/ \E left \in SeqsUpTo(LeftTuples, MaxLeft), right \in SeqsUpTo(JoinVals, MaxRight),
        hv \in [JoinVals -> Keys] : HashJoinExecutor(left, right, hv)
  \/ HashJoinInit
  \/ HashJoinInitTuple
  \/ HashJoinInitEnd
  \/ HashJoinNext
  \/ HashJoinNextEnd

SpecJoin == InitJoin /\ [][NextJoin]_vars

(***************************************************************************)
(* A block page by itself: calls of Insert and Remove on its slots.        *)
(***************************************************************************)
NextBlockPage ==
  \/ \E i \in CalledSlots, k \in Keys : BlockPageInsert(i, k, 1)
  \/ \E i \in CalledSlots : BlockPageRemove(i)

SpecBlockPage == Init /\ [][NextBlockPage]_vars

(***************************************************************************)
(* Recovery: transactions change the table pages while the flush thread    *)
(* writes the log and the buffer pool writes pages; the system stops at    *)
(* any moment and is recovered by Redo and Undo.                           *)
(***************************************************************************)
NextRec ==
  \/ \E t \in Txns : TxnBegin(t)
  \/ \E t \in Txns : TxnNewPage(t)
  \/ \E t \in Txns, p \in TablePages, v \in Tuples : TxnInsert(t, p, v)
  \/ \E t \in Txns, p \in TablePages, v \in Tuples : TxnUpdate(t, p, v)
  \/ \E t \in Txns, p \in TablePages : TxnMarkDelete(t, p)
  \/ \E t \in Txns, p \in TablePages : TxnApplyDelete(t, p)
  \/ \E t \in Txns, p \in TablePages : TxnRollbackDelete(t, p)
  \/ \E t \in Txns : TxnCommit(t)
  \/ \E t \in Txns : TxnAbort(t)
  \/ \E p \in TablePages : TpWritePage(p)
  \/ FlushThreadRound
  \/ Crash
  \/ Redo
  \/ Undo

SpecRec == InitRecovery /\ [][NextRec]_vars

\* The same with logs of at most MaxRestartLsn records, and recovery is run a
\* second time.
MaxRestartLsn == 5

NextRestart ==
  \/ \E t \in Txns : next_lsn_ < MaxRestartLsn /\ TxnBegin(t)
  \/ \E t \in Txns : next_lsn_ < MaxRestartLsn /\ TxnNewPage(t)
  \/ \E t \in Txns, p \in TablePages, v \in Tuples :
       next_lsn_ < MaxRestartLsn /\ TxnInsert(t, p, v)
  \/ \E t \in Txns, p \in TablePages, v \in Tuples :
       next_lsn_ < MaxRestartLsn /\ TxnUpdate(t, p, v)
  \/ \E t \in Txns, p \in TablePages : next_lsn_ < MaxRestartLsn /\ TxnMarkDelete(t, p)
  \/ \E t \in Txns, p \in TablePages : next_lsn_ < MaxRestartLsn /\ TxnApplyDelete(t, p)
  \/ \E t \in Txns, p \in TablePages : next_lsn_ < MaxRestartLsn /\ TxnRollbackDelete(t, p)
  \/ \E t \in Txns : next_lsn_ < MaxRestartLsn /\ TxnCommit(t)
  \/ \E t \in Txns : next_lsn_ < MaxRestartLsn /\ TxnAbort(t)
  \/ \E p \in TablePages : TpWritePage(p)
  \/ FlushThreadRound
  \/ Crash
  \/ Redo
  \/ Undo
  \/ Restart

SpecRestart == InitRecovery /\ [][NextRestart]_vars

\* The same, and the log file may be damaged before recovery reads it.
NextCorrupt ==
  \/ NextRestart
  \/ \E j \in 1 .. MaxRestartLsn, size \in {0, LOG_BUFFER_SIZE + 1} : CorruptLog(j, size)

SpecCorrupt == InitRecovery /\ [][NextCorrupt]_vars

(***************************************************************************)
(* The replacer alone: any sequence of Victim, Pin and Unpin calls.  The   *)
(* argument MaxReplacer is a frame number (or a value found in *frame_id)  *)
(* that fails the assert of the call.                                      *)
(***************************************************************************)
NextClock ==
  \/ \E v \in 0 .. MaxReplacer : ReplacerVictim(v)
  \/ \E f \in 0 .. MaxReplacer : ReplacerPin(f)
  \/ \E f \in 0 .. MaxReplacer : ReplacerUnpin(f)

\* A replacer of any number of frames up to MaxReplacer.
InitClock ==
  /\ watch = INVALID_PAGE_ID /\ observe = TRUE
  /\ InitPool /\ InitLog /\ InitHt /\ InitRec
  /\ \E n \in 1 .. MaxReplacer : InitReplacer(n)

SpecClock == InitClock /\ [][NextClock]_vars

(***************************************************************************)
(* The replacer called by several threads, with frames that it has.        *)
(***************************************************************************)
NextClockShared ==
  \/ \E t \in Threads : VictimSize(t)
  \/ \E t \in Threads : VictimScan(t)
  \/ \E t \in Threads, f \in 0 .. (MaxReplacer - 1) : ThreadPin(t, f)
  \/ \E t \in Threads, f \in 0 .. (MaxReplacer - 1) : ThreadUnpin(t, f)

SpecClockShared == InitClock /\ [][NextClockShared]_vars

(***************************************************************************)
(* Claims about the buffer pool.                                           *)
(***************************************************************************)
\* C1: neither fetch_page nor new_page ever replaces the page held by a frame
\* whose pin count is > 0 (a pinned frame is never chosen as a victim).
C1_PinnedFrameNeverVictim ==
  [][\A f \in Frames :
       ( /\ bpm_ret'.op \in {"fetch", "new"}
         /\ pages_[f].page_id_ # INVALID_PAGE_ID
         /\ pages_'[f].page_id_ # pages_[f].page_id_ )
       => pages_[f].pin_count_ = 0]_vars

\* C2: whenever fetch_page or new_page writes a dirty victim page to the data
\* file while logging is enabled, persistent_lsn >= the LSN of that page at the
\* moment of the write (stated for page LSNs that were set from a log record).
C2_WalBeforeVictimWrite ==
  [][( /\ bpm_pc.stage = "write" /\ bpm_pc'.stage = "none"
       /\ enable_logging
       /\ pages_[bpm_pc.frame].is_dirty_
       /\ pages_[bpm_pc.frame].stamped )
     => persistent_lsn_ >= pages_[bpm_pc.frame].lsn_]_vars

\* C3: a page that is modified only while pinned and then unpinned with
\* is_dirty = true reads back, on every later fetch_page, as the bytes last
\* written to it, also after it was evicted and reloaded from the data file.
\* (A fetch returns the frame that holds the page: the frame's bytes.)
C3_FetchReturnsLastWritten ==
  (tracked /\ ~pending /\ page_table_[watch] # -1)
    => pages_[page_table_[watch]].data_ = latest

(***************************************************************************)
(* Claims about the log manager.                                           *)
(***************************************************************************)
\* The record with LSN l is in the log file.
InLogFile(l) == \E j \in 1 .. Len(log_file) : log_file[j].lsn = l

\* C8: under any interleaving of concurrent append_log_record calls and the
\* flush thread, the LSNs are handed out distinct, strictly increasing and
\* without gaps, and the records are in the log file in increasing LSN order.
C8_LsnOrder ==
  /\ \A i \in 1 .. Len(handed) : handed[i] = i - 1
  /\ \A i, j \in 1 .. Len(log_file) : i < j => log_file[i].lsn < log_file[j].lsn

\* Two threads have appended, two records are in the log file and one more
\* is still in log_buffer_.
C8_Witness ==
  /\ Len(handed) = MaxLsn
  /\ Len(log_file) >= 2
  /\ log_buffer_ # <<>>
  /\ log_ret.op = "append" /\ log_ret.thread = 2

\* C9: every record with LSN <= persistent_lsn is in the log file, and
\* persistent_lsn never decreases.
C9_PersistentLsn ==
  /\ [](\A i \in 1 .. Len(handed) : handed[i] <= persistent_lsn_ => InLogFile(handed[i]))
  /\ [][persistent_lsn_' >= persistent_lsn_]_vars

\* persistent_lsn_ was advanced twice and a later record is only in log_buffer_.
C9_Witness ==
  /\ persistent_lsn_ >= 1
  /\ Len(log_file) >= 2
  /\ log_buffer_ # <<>>
  /\ log_buffer_[1].lsn > persistent_lsn_

\* C10: when a flush() that found logging enabled returns, every record that
\* was appended before the call started is in the log file and
\* persistent_lsn >= its LSN.
C10_FlushDurable ==
  log_ret.op = "flush" =>
    \A l \in 0 .. (log_ret.from - 1) : InLogFile(l) /\ persistent_lsn_ >= l

\* A flush() called after two appends has returned.
C10_Witness ==
  /\ log_ret.op = "flush"
  /\ log_ret.from >= 2
  /\ enable_logging

(***************************************************************************)
(* Claims about the hash table.                                            *)
(***************************************************************************)
\* The pair (k, v) is in a readable slot of the block pages blocks.
Stored(blocks, k, v) ==
  \E b \in 0 .. (num_blocks - 1), i \in Buckets :
    blocks[b].readable_[i] /\ blocks[b].array_[i] = [key |-> k, value |-> v]

\* The values a sequence holds.
Range(seq) == {seq[i] : i \in 1 .. Len(seq)}

\* C4: after insert(k,v) returned true and until a remove(k,v) returns true,
\* get(k) contains v; and get(k) returns only values v of pairs (k,v) that are
\* in the table (inserted, and not removed since).
C4_GetMatchesTable ==
  ht_ret.op = "get" =>
    \A v \in Values : (v \in Range(ht_ret.result)) <=> (<<ht_ret.key, v>> \in ht_abs)

\* C5: insert(k,v) returns false if and only if the pair (k,v) is already in
\* the table, and then changes nothing; the table never holds two readable
\* slots with the same pair.
C5_InsertFalseIffDuplicate ==
  /\ [][ht_ret'.op = "insert" =>
          /\ ht_ret'.ok = ~Stored(ht_blocks, ht_ret'.key, ht_ret'.value)
          /\ ~ht_ret'.ok => ht_blocks' = ht_blocks]_vars
  /\ [](\A b1, b2 \in Blocks, i1, i2 \in Buckets :
          ( /\ ht_blocks[b1].readable_[i1] /\ ht_blocks[b2].readable_[i2]
            /\ ht_blocks[b1].array_[i1] = ht_blocks[b2].array_[i2] )
          => (b1 = b2 /\ i1 = i2))

\* C6: remove(k,v) returns true if and only if (k,v) was in the table; after it
\* returned true the pair is no longer in the table (get(k) does not return v,
\* a repeated remove(k,v) returns false).
C6_RemoveSemantics ==
  [][ht_ret'.op = "remove" =>
       /\ ht_ret'.ok = Stored(ht_blocks, ht_ret'.key, ht_ret'.value)
       /\ ht_ret'.ok => ~Stored(ht_blocks', ht_ret'.key, ht_ret'.value)]_vars

(***************************************************************************)
(* Claims about log recovery.                                              *)
(***************************************************************************)
\* The transactions with a COMMIT or an ABORT record in the log file.
Ended(file) ==
  {file[j].txn_id : j \in {i \in 1 .. Len(file) :
                             file[i].log_record_type \in {"COMMIT", "ABORT"}}}

\* The transactions with a COMMIT record in the log file.
Committed(file) ==
  {file[j].txn_id : j \in {i \in 1 .. Len(file) : file[i].log_record_type = "COMMIT"}}

\* What a logged change means for the tuple it is about.
Effect(tuple, r) ==
  CASE r.log_record_type \in {"INSERT", "UPDATE"} -> [v |-> r.tuple, del |-> FALSE]
    [] r.log_record_type = "MARKDELETE" -> [tuple EXCEPT !.del = TRUE]
    [] r.log_record_type = "APPLYDELETE" -> NoTuple
    [] r.log_record_type = "ROLLBACKDELETE" -> [tuple EXCEPT !.del = FALSE]
    [] OTHER -> tuple

\* The tuple of page p after the changes that the transactions of txns logged
\* for it in the records j .. Len(file), made in log order on tuple.
RECURSIVE EffectsOf(_, _, _, _, _)
EffectsOf(file, txns, p, tuple, j) ==
  IF j > Len(file) THEN tuple
  ELSE EffectsOf(file, txns, p,
                 IF file[j].txn_id \in txns /\ file[j].page_id = p
                      /\ file[j].log_record_type # "NEWPAGE"
                   THEN Effect(tuple, file[j]) ELSE tuple,
                 j + 1)

C11_StopFlushesAll ==
  [][(stop_pc = "join" /\ stop_pc' = "idle") =>
       /\ ft_pc = "exited"
       /\ \A i \in 1 .. Len(handed) :
            handed[i] < stop_from =>
              \E j \in 1 .. Len(log_file') : log_file'[j].lsn = handed[i]]_vars

(***************************************************************************)
(* Further claims about the buffer pool.                                   *)
(***************************************************************************)
\* C12: after flush_all_pages no resident page is dirty and, whatever frame
\* it occupies, the data file holds at the page's own page id the bytes the
\* page has in memory (for the page the client writes: the bytes it handed
\* over with unpin_page(id, true)).
C12_FlushAllWritesEveryPage ==
  [][FlushAllPagesImpl =>
       \A f \in Frames :
         pages_'[f].page_id_ # INVALID_PAGE_ID =>
           /\ ~pages_'[f].is_dirty_
           /\ (pages_'[f].page_id_ = watch /\ tracked /\ ~pending) =>
                 disk'[watch].data = pages_'[f].data_]_vars

(***************************************************************************)
(* Claims about Resize.                                                    *)
(***************************************************************************)
\* C13: a resize preserves the contents of the table: a Resize that has the
\* table latch returns, and then every pair is in as many readable slots as
\* before and no tombstone is left.
C13_ResizePreserves ==
  \A t \in Threads :
    (ht_thr[t].pc = "wait") ~>
      (ht_thr[t].ret.op = "resize" /\ ht_thr[t].ret.ok /\ ht_thr[t].ret.whole)

\* C14: a get(k) that runs while an insert is in Resize returns, and returns
\* the values for k of one complete table (the one before the resize or the
\* one after it).
C14_GetDuringResize ==
  \A g \in Threads : \A i \in Threads \ {g} :
    (/\ ht_thr[g].pc = "rlock" /\ ht_thr[g].op = "get"
     /\ ht_thr[i].pc \in {"wlock", "wait"} /\ ht_thr[i].rd)
      ~> (ht_thr[g].pc = "idle" /\ ht_thr[g].ret.op = "get" /\ ht_thr[g].ret.whole)

\* C15: fetch_page of a page that is not resident, and new_page, return null
\* exactly when every frame has a pin count > 0, and then leave the page table,
\* the frames (pin counts, dirty flags), the free list and the replacer alone.
C15_NullIffAllPinned ==
  [][( \/ bpm_ret'.op = "new"
       \/ bpm_ret'.op = "fetch" /\ page_table_[bpm_ret'.page] = -1 )
     => /\ ~bpm_ret'.ok <=> \A f \in Frames : pages_[f].pin_count_ > 0
        /\ ~bpm_ret'.ok => UNCHANGED <<page_table_, pages_, free_list_, frames_>>]_vars

\* C16: the successful new_page calls return the page ids 0, 1, 2, ... in
\* order and without gaps: each returns the id after the one returned last, a
\* new_page that fails returns INVALID_PAGE_ID and takes no page id, and no
\* other call takes one.
C16_PageIdsInOrder ==
  [][/\ bpm_ret'.op = "new" /\ bpm_ret'.ok =>
          bpm_ret'.page = next_page_id /\ next_page_id' = next_page_id + 1
     /\ bpm_ret'.op = "new" /\ ~bpm_ret'.ok =>
          bpm_ret'.page = INVALID_PAGE_ID /\ next_page_id' = next_page_id
     /\ bpm_ret'.op # "new" => next_page_id' = next_page_id]_vars

\* A new_page has failed after PoolSize new_page calls succeeded.
C16_Witness ==
  bpm_ret.op = "new" /\ ~bpm_ret.ok /\ next_page_id = PoolSize

\* C17: unpin_page(id, d) returns false and changes nothing when id is not
\* resident or its pin count is 0; otherwise it returns true, the pin count
\* is one less, and the frame is handed to the replacer exactly when the count
\* has reached 0 (else the replacer is as before).
C17_UnpinSemantics ==
  [][bpm_ret'.op = "unpin" =>
       LET f == page_table_[bpm_ret'.page] IN
       IF f = -1 \/ pages_[f].pin_count_ = 0
         THEN /\ ~bpm_ret'.ok
              /\ UNCHANGED <<pages_, page_table_, free_list_, frames_, clock_hand_, disk>>
         ELSE /\ bpm_ret'.ok
              /\ pages_'[f].pin_count_ = pages_[f].pin_count_ - 1
              /\ \A g \in Frames \ {f} : pages_'[g] = pages_[g]
              /\ IF pages_'[f].pin_count_ = 0
                    THEN /\ frames_'[f].contains
                         /\ \A g \in Frames \ {f} : frames_'[g] = frames_[g]
                    ELSE frames_' = frames_
              /\ UNCHANGED <<page_table_, free_list_>>]_vars

\* An unpin_page has brought the pin count of a page from 2 to 1, and the frame
\* of the page is no candidate of the replacer.
C17_Witness ==
  /\ bpm_ret.op = "unpin" /\ bpm_ret.ok
  /\ pages_[page_table_[bpm_ret.page]].pin_count_ = 1
  /\ ~frames_[page_table_[bpm_ret.page]].contains

\* C18: delete_page(id) returns true and changes nothing when id is not
\* resident, returns false and changes nothing when the page is pinned, and
\* otherwise returns true, takes id out of the page table, resets the frame (no
\* page, pin count 0, not dirty) and appends that frame to the free list.
C18_DeleteSemantics ==
  [][bpm_ret'.op = "delete" =>
       LET f == page_table_[bpm_ret'.page] IN
       IF f = -1
         THEN /\ bpm_ret'.ok
              /\ UNCHANGED <<pages_, page_table_, free_list_, frames_, clock_hand_, disk>>
         ELSE IF pages_[f].pin_count_ > 0
           THEN /\ ~bpm_ret'.ok
                /\ UNCHANGED <<pages_, page_table_, free_list_, frames_, clock_hand_, disk>>
           ELSE /\ bpm_ret'.ok
                /\ page_table_'[bpm_ret'.page] = -1
                /\ pages_'[f].page_id_ = INVALID_PAGE_ID
                /\ pages_'[f].pin_count_ = 0
                /\ ~pages_'[f].is_dirty_
                /\ free_list_' = Append(free_list_, f)]_vars

\* C19: the page a successful new_page returns is not dirty, and a page that is
\* not dirty becomes dirty only by an unpin_page of that page.
C19_NewPageNotDirty ==
  /\ [][(bpm_ret'.op = "new" /\ bpm_ret'.ok) =>
          ~pages_'[page_table_'[bpm_ret'.page]].is_dirty_]_vars
  /\ [][\A f \in Frames :
          (~pages_[f].is_dirty_ /\ pages_'[f].is_dirty_) =>
            (bpm_ret'.op = "unpin" /\ page_table_[bpm_ret'.page] = f)]_vars

\* The page in frame f was unpinned with is_dirty = true: it is the page the
\* client writes, it holds bytes the client wrote, and the client's last write
\* was followed by an unpin_page(id, true).
UnpinnedDirty(f) ==
  pages_[f].page_id_ = watch /\ pages_[f].data_ # 0 /\ ~pending

\* C20: a resident page that was unpinned with is_dirty = true stays dirty
\* until it is written to the data file or deleted: neither unpin_page nor
\* fetch_page of the resident page clears the flag, and when the page stops
\* being dirty in its frame it was deleted (the frame holds no page) or the
\* data file holds its bytes at its page id.
C20_DirtyUntilWritten ==
  [][\A f \in Frames :
       LET p == pages_[f].page_id_ IN
       ( /\ UnpinnedDirty(f) /\ pages_[f].is_dirty_
         /\ ~(pages_'[f].page_id_ = p /\ pages_'[f].is_dirty_) )
       => /\ ~\E q \in PageIds, d \in BOOLEAN : UnpinPageImpl(q, d)
          /\ ~\E q \in PageIds : page_table_[q] # -1 /\ FetchPageImpl(q)
          /\ \/ pages_'[f].page_id_ = INVALID_PAGE_ID
             \/ disk'[p].data = pages_[f].data_]_vars

(***************************************************************************)
(* Invariants of the buffer pool.                                          *)
(***************************************************************************)
\* C21: the page table is a one-to-one map from the resident page ids to the
\* frames: the frame of an entry holds that page id, no two page ids have the
\* same frame, every frame that holds a page id has its entry, and no pin
\* count is negative.
C21_PageTableOneToOne ==
  /\ \A q \in PageIds :
       page_table_[q] # -1 => pages_[page_table_[q]].page_id_ = q
  /\ \A q1, q2 \in PageIds :
       (page_table_[q1] # -1 /\ page_table_[q1] = page_table_[q2]) => q1 = q2
  /\ \A f \in Frames :
       pages_[f].page_id_ # INVALID_PAGE_ID => page_table_[pages_[f].page_id_] = f
  /\ \A f \in Frames : pages_[f].pin_count_ >= 0

\* Every frame holds a page and a page created earlier is no longer resident:
\* a page was replaced.
C21_Witness ==
  /\ \A f \in Frames : pages_[f].page_id_ # INVALID_PAGE_ID
  /\ \E q \in PageIds : q < next_page_id /\ page_table_[q] = -1
  /\ bpm_ret.op \in {"fetch", "new"} /\ bpm_ret.ok

(***************************************************************************)
(* Claims about the clock replacer.                                        *)
(***************************************************************************)
\* The number of steps the hand takes from its position to frame f.
HandSteps(f) ==
  LET n == Cardinality(DOMAIN frames_) IN ((f - clock_hand_ - 1) % n) + 1

\* The frame of set S the hand reaches first.
FirstReached(S) == CHOOSE f \in S : \A g \in S : HandSteps(f) <= HandSteps(g)

\* C22: a victim call returns the frame of the second-chance rule.  The hand
\* starts one position after where the previous victim call left it; frames
\* that are not contained are skipped, a contained frame with ref set loses ref,
\* and the first contained frame found with ref clear is returned and is no
\* longer contained.  The call returns false exactly when no frame is
\* contained, and then changes nothing.
C22_SecondChance ==
  [][bpm_ret'.op = "victim" =>
       LET contained == {f \in DOMAIN frames_ : frames_[f].contains}
           clear == {f \in contained : ~frames_[f].ref}
           sel == IF clear # {} THEN FirstReached(clear) ELSE FirstReached(contained)
       IN IF contained = {}
            THEN /\ ~bpm_ret'.ok
                 /\ frames_' = frames_ /\ clock_hand_' = clock_hand_
            ELSE /\ bpm_ret'.ok /\ bpm_ret'.page = sel
                 /\ clock_hand_' = sel
                 /\ frames_' =
                      [f \in DOMAIN frames_ |->
                         IF f = sel
                           THEN [contains |-> FALSE, ref |-> FALSE]
                           ELSE IF f \in contained /\
                                   (clear = {} \/ HandSteps(f) < HandSteps(sel))
                                  THEN [contains |-> TRUE, ref |-> FALSE]
                                  ELSE frames_[f]]]_vars

\* A victim call that passed a frame whose ref was set and returned a frame
\* behind it.
C22_Witness ==
  /\ bpm_ret.op = "victim" /\ bpm_ret.ok
  /\ \E f \in DOMAIN frames_ :
       f < bpm_ret.page /\ frames_[f].contains /\ ~frames_[f].ref

\* C23: victim returns only a frame that was unpinned and not pinned or
\* returned since, and the size of the replacer is the number of such frames.
C23_OnlyUnpinnedFrames ==
  /\ [](Size(frames_) = Cardinality(candidates))
  /\ [][bpm_ret'.op = "victim" /\ bpm_ret'.ok => bpm_ret'.page \in candidates]_vars

\* Victim returned frame 2 and passed over frame 1, which is not contained
\* (it was pinned, returned before or never unpinned), and over frame 0.
C23_Witness ==
  /\ bpm_ret.op = "victim" /\ bpm_ret.ok
  /\ clock_hand_ = 2
  /\ frames_[0].contains /\ ~frames_[0].ref
  /\ ~frames_[1].contains

(***************************************************************************)
(* Claims about the buffer pool with logging.                              *)
(***************************************************************************)
\* C24: while logging is enabled, a page is written to the data file (by the
\* replacement of a victim, flush_page or flush_all_pages) only in a state
\* where persistent_lsn >= the LSN of the page (stated for page LSNs that were
\* set from a log record).
C24_WalBeforeEveryWrite ==
  [][\A q \in PageIds :
       (enable_logging /\ disk'[q] # disk[q] /\ disk'[q].stamped)
         => persistent_lsn_ >= disk'[q].lsn]_vars

Loser(r) ==
  ~\E j \in 1 .. Len(log_file) :
     /\ log_file[j].txn_id = r.txn_id
     /\ log_file[j].log_record_type \in {"COMMIT", "ABORT"}

C26_RedoTerminates == rec_pc # "redo_hung"

\* C27: a frame is contained in the replacer exactly when it holds a resident
\* page with pin count 0; so no frame is on the free list and in the replacer,
\* and a frame that new_page or fetch_page handed out is not in the replacer.
C27_ReplacerIffUnpinned ==
  \A f \in Frames :
    frames_[f].contains <=>
      (pages_[f].page_id_ # INVALID_PAGE_ID /\ pages_[f].pin_count_ = 0)

(***************************************************************************)
(* Claims about resize and the probe of the hash table.                    *)
(***************************************************************************)
\* Every slot of the table holds a pair: a probe finds no free slot.
TableFull ==
  \A b \in 0 .. (num_blocks - 1), i \in Buckets : ht_blocks[b].readable_[i]

\* C28: an insert of a new pair into a table in which the probe finds no free
\* slot returns true, and the pair is then in the table.
C28_FullInsertResizes ==
  [][\A k \in Keys, v \in Values :
       (Insert(k, v) /\ TableFull /\ ~Stored(ht_blocks, k, v))
         => /\ ht_ret'.op = "insert" /\ ht_ret'.ok
            /\ (Stored(ht_blocks, k, v))']_vars

\* C29: a get, insert or remove call that returns leaves the pin count of
\* every block page as it found it and holds no latch of a block page that it
\* did not find held, also when its probe went from the last bucket of a
\* block page to the next block page.
C29_PinsAndLatchesRestored ==
  [][ht_ret'.op \in {"get", "insert", "remove"} =>
       /\ ht_pin' = ht_pin
       /\ ht_latch' = ht_latch]_vars

\* C30: the probe of a get, insert or remove call for key k starts at
\* slot = hash(k) mod (number of slots of the table), in block page
\* slot / BLOCK_ARRAY_SIZE at bucket slot mod BLOCK_ARRAY_SIZE, so that
\* block * BLOCK_ARRAY_SIZE + bucket = slot.
C30_ProbeStartsAtHashSlot ==
  [][ht_ret'.op \in {"get", "insert", "remove"} =>
       LET idx == GetIndex(ht_ret'.key)
           slot == hash_fn_[ht_ret'.key] % (BLOCK_ARRAY_SIZE * num_buckets)
       IN /\ idx.slot_index = slot
          /\ idx.block_index = slot \div BLOCK_ARRAY_SIZE
          /\ idx.bucket_index = slot % BLOCK_ARRAY_SIZE
          /\ idx.block_index * BLOCK_ARRAY_SIZE + idx.bucket_index = idx.slot_index]_vars

(***************************************************************************)
(* Claims about the length of a probe.                                     *)
(***************************************************************************)
\* Insert(k, v) goes through its probe loop back to the slot it started from
\* and enters Resize (lines 115-122).
EntersResize(k, v) ==
  LET c0 == ProbeBegin(k, "WRITE")
      c == IF c0.hung THEN c0 ELSE InsertLoop(c0, k, v, GetIndex(k))
  IN ~c.hung /\ c.result = "resize"

\* C31: an insert call goes to Resize only when its probe has been at every
\* slot of the table and found each of them readable, that is, only when the
\* table is full.
C31_ResizeOnlyWhenFull ==
  [][\A k \in Keys, v \in Values :
       (Insert(k, v) /\ EntersResize(k, v)) => TableFull]_vars

(***************************************************************************)
(* Claims about the table after a resize.                                  *)
(***************************************************************************)
\* C32: when a Resize called with the size of the table returns, GetSize() is
\* twice what it was, and from then on GetIndex takes the hash of every key
\* modulo the new number of slots.
C32_ResizeDoubles ==
  [][\A t \in Threads :
       (/\ ResizeBody(t)
        /\ ht_thr[t].size = GetSize
        /\ ht_thr'[t].ret.op = "resize")
         => /\ GetSize' = 2 * GetSize
            /\ \A k \in Keys : (GetIndex(k).slot_index)' = hash_fn_[k] % GetSize']_vars

(***************************************************************************)
(* Claims about removed entries and the bits of a block page.              *)
(***************************************************************************)
\* A GetValue(k) called now returns, with v among its values.
Finds(k, v) ==
  LET c0 == ProbeBegin(k, "READ")
      c == IF c0.hung THEN c0 ELSE GetLoop(c0, k, GetIndex(k))
  IN ~c.hung /\ v \in Range(c.result)

\* A Remove(k, v) called now returns true.
Removes(k, v) ==
  LET c0 == ProbeBegin(k, "WRITE")
      c == IF c0.hung THEN c0 ELSE RemoveLoop(c0, k, v, GetIndex(k))
  IN ~c.hung /\ c.result = "removed"

\* C33: a remove that returns true hides no other entry: a pair other than
\* the removed one that get(k) returned before the remove is returned after
\* it, and a remove(k, v) that would have succeeded before still succeeds.
C33_RemoveHidesNothing ==
  [][(ht_ret'.op = "remove" /\ ht_ret'.ok) =>
       \A k \in Keys, v \in Values :
         <<k, v>> # <<ht_ret'.key, ht_ret'.value>> =>
           /\ Finds(k, v) => (Finds(k, v))'
           /\ Removes(k, v) => (Removes(k, v))']_vars

\* A remove returned true and left a tombstone in bucket 0 of a block page;
\* a get still returns the pair of the bucket behind it and a remove of that
\* pair succeeds.
C33_Witness ==
  /\ ht_ret.op = "remove" /\ ht_ret.ok
  /\ \E b \in 0 .. (num_blocks - 1) :
       /\ ht_blocks[b].occupied_[0] /\ ~ht_blocks[b].readable_[0]
       /\ ht_blocks[b].readable_[1]
       /\ GetIndex(ht_blocks[b].array_[1].key).block_index = b
       /\ GetIndex(ht_blocks[b].array_[1].key).bucket_index = 0
       /\ Finds(ht_blocks[b].array_[1].key, ht_blocks[b].array_[1].value)
       /\ Removes(ht_blocks[b].array_[1].key, ht_blocks[b].array_[1].value)

\* C34: in every state of a block page a readable slot is occupied; Insert
\* on a slot returns true exactly when the slot is not readable, and then the
\* slot holds the pair and is readable and occupied, while an Insert that
\* returns false changes nothing; Remove clears the readable bit of its slot
\* and nothing else; no call clears an occupied bit, and no call changes the
\* bits or the pair of a slot other than the one it is called on.
C34_ReadableImpliesOccupied ==
  /\ [](\A i \in PageSlots :
          GetBit(block_page.readable_, i) => GetBit(block_page.occupied_, i))
  /\ [][LET i == block_ret'.bucket_ind IN
        /\ block_ret'.op = "insert" =>
             /\ block_ret'.ok = ~GetBit(block_page.readable_, i)
             /\ block_ret'.ok => /\ GetBit(block_page'.readable_, i)
                                 /\ GetBit(block_page'.occupied_, i)
             /\ ~block_ret'.ok => block_page' = block_page
        /\ block_ret'.op = "remove" =>
             /\ ~GetBit(block_page'.readable_, i)
             /\ block_page'.occupied_ = block_page.occupied_
             /\ block_page'.array_ = block_page.array_
        /\ \A j \in PageSlots :
             /\ GetBit(block_page.occupied_, j) => GetBit(block_page'.occupied_, j)
             /\ j # i =>
                  /\ GetBit(block_page'.occupied_, j) = GetBit(block_page.occupied_, j)
                  /\ GetBit(block_page'.readable_, j) = GetBit(block_page.readable_, j)
                  /\ block_page'.array_[j] = block_page.array_[j]]_vars

\* Remove was called on slot 7, which held a pair, while slot 0 in the same
\* byte of the bitmaps and slot 8 in the next byte hold pairs: slot 7 is
\* occupied and not readable, slots 0 and 8 are readable.
C34_Witness ==
  /\ block_ret.op = "remove" /\ block_ret.bucket_ind = 7
  /\ GetBit(block_page.occupied_, 7) /\ ~GetBit(block_page.readable_, 7)
  /\ GetBit(block_page.readable_, 0) /\ GetBit(block_page.readable_, 8)

(***************************************************************************)
(* Claims about the replacer called by several threads.                    *)
(***************************************************************************)
\* C35: a victim call that runs while other threads call pin and unpin
\* returns, with false or with a frame that was contained when it was taken:
\* no call stays in the loop of Victim, and every frame returned was
\* contained.
C35_VictimTerminates ==
  /\ \A t \in Threads : victim_pc[t] # "loop"
  /\ (bpm_ret.op = "victim" /\ bpm_ret.page # INVALID_PAGE_ID) => bpm_ret.ok

(***************************************************************************)
(* Claims about calls of the log manager that wait.                        *)
(***************************************************************************)
\* C36: every Flush() call returns, whatever other threads do in
\* AppendLogRecord, Flush and StopFlushThread.
C36_FlushReturns ==
  \A t \in Threads : (thr[t].pc = "flush_lock") ~> (thr[t].pc = "idle")

\* The records in log_buffer_ take up log_buffer_offset_.
RECURSIVE SizeSum(_)
SizeSum(buf) == IF buf = <<>> THEN 0 ELSE Head(buf).size + SizeSum(Tail(buf))

\* C37: an AppendLogRecord call that finds no room for its record waits, and
\* while the flush thread runs it returns (the obligation ends when logging
\* is stopped, or when the LSNs of the model are used up); log_buffer_ holds
\* whole records only: their sizes add up to log_buffer_offset_, which is at
\* most LOG_BUFFER_SIZE.
C37_AppendWaitsAndFits ==
  /\ [](/\ log_buffer_offset_ <= LOG_BUFFER_SIZE
        /\ SizeSum(log_buffer_) = log_buffer_offset_)
  /\ \A t \in Threads :
       (thr[t].pc = "append_wait")
         ~> (thr[t].pc # "append_wait" \/ ~enable_logging \/ next_lsn_ >= MaxLsn)

\* A thread waits in AppendLogRecord with a record of the size of the buffer;
\* the flush thread, which is running, has written the records that were in
\* its way: the record fits now.
C37_Witness ==
  \E t \in Threads :
    /\ thr[t].pc = "append_wait" /\ thr[t].size = LOG_BUFFER_SIZE
    /\ enable_logging /\ ft_pc = "loop"
    /\ log_file # <<>> /\ log_buffer_offset_ = 0 /\ ~need_flush_
    /\ next_lsn_ < MaxLsn

(***************************************************************************)
(* Claims about the records redo and undo go through.                      *)
(***************************************************************************)
\* The table pages when Redo, started now, has gone through the first j
\* records of the log file.
RedoneUpTo(j) ==
  RedoLoop(SubSeq(log_file, 1, j),
           [pages |-> tp_mem, active_txn_ |-> active_txn_, lsn_mapping_ |-> lsn_mapping_,
            offset_ |-> offset_, pos |-> 0, hung |-> FALSE]).pages

\* The types of the records that change a page.
DataRecords ==
  {"INSERT", "UPDATE", "MARKDELETE", "APPLYDELETE", "ROLLBACKDELETE", "NEWPAGE"}

\* C38: when Redo comes to a data record, it makes the change of the record on
\* the page if and only if the LSN of the page is smaller than the LSN of the
\* record (otherwise the pages stay as they are), and it unpins the page with
\* is_dirty = true exactly in that case.
C38_RedoIffPageOlder ==
  rec_pc \in {"crashed", "restarted"} =>
    \A j \in 1 .. Len(log_file) :
      LET r == log_file[j]
          before == RedoneUpTo(j - 1)
          after == RedoneUpTo(j)
      IN r.log_record_type \in DataRecords =>
           /\ before[r.page_id].lsn < r.lsn => after = ReplayRecord(before, r)
           /\ before[r.page_id].lsn >= r.lsn => after = before
           /\ RedoUnpinDirty(before, r) = (before[r.page_id].lsn < r.lsn)

\* Redo ran over a log with a data record whose page was written to the data
\* file with the change (not replayed) and a data record whose change was made
\* on the page again: the page in the data file is older than the record
\* and the record's insert or update is on the page after Redo.
C38_Witness ==
  /\ rec_pc = "redone"
  /\ \E i, j \in 1 .. Len(log_file) :
       /\ log_file[i].log_record_type \in DataRecords
       /\ tp_disk[log_file[i].page_id].lsn >= log_file[i].lsn
       /\ log_file[j].log_record_type \in {"INSERT", "UPDATE"}
       /\ tp_disk[log_file[j].page_id].lsn < log_file[j].lsn
       /\ tp_disk[log_file[j].page_id].tuple.v # log_file[j].tuple
       /\ tp_mem[log_file[j].page_id].tuple.v = log_file[j].tuple

\* The transactions with a record in the log file and neither a COMMIT nor an
\* ABORT record.
LoserTxns ==
  {log_file[j].txn_id : j \in 1 .. Len(log_file)} \ Ended(log_file)

\* The pages after the changes of the records j, j-1, .. 1 of transaction t
\* were taken back, in this order.
RECURSIVE TakenBack(_, _, _)
TakenBack(pages, t, j) ==
  IF j = 0 THEN pages
  ELSE TakenBack(IF log_file[j].txn_id = t THEN UndoRecord(pages, log_file[j]) ELSE pages,
                 t, j - 1)

\* The same for the transactions of order, one after the other.
RECURSIVE TakenBackAll(_, _)
TakenBackAll(pages, order) ==
  IF order = <<>> THEN pages
  ELSE TakenBackAll(TakenBack(pages, Head(order), Len(log_file)), Tail(order))

\* C39: Undo is entered with active_txn_ holding exactly the transactions
\* without COMMIT or ABORT record, each with the LSN of its last record, and
\* with lsn_mapping_ holding for every record the offset it has in the log
\* file; it takes back the changes of each of these transactions, all its
\* records from the last to the first and no record of another transaction,
\* and leaves active_txn_ and lsn_mapping_ empty.
C39_UndoWalksLoserChains ==
  [][Undo =>
       /\ DOMAIN active_txn_ = LoserTxns
       /\ \A j \in 1 .. Len(log_file) :
            /\ lsn_mapping_[log_file[j].lsn] = OffsetOf(log_file, j)
            /\ log_file[j].txn_id \in LoserTxns =>
                 active_txn_[log_file[j].txn_id] >= log_file[j].lsn
       /\ \A t \in LoserTxns :
            \E j \in 1 .. Len(log_file) :
              log_file[j].txn_id = t /\ log_file[j].lsn = active_txn_[t]
       /\ \E order \in Orders(LoserTxns) : tp_mem' = TakenBackAll(tp_mem, order)
       /\ active_txn_' = <<>>
       /\ lsn_mapping_' = <<>>]_vars

\* Undo ended on a log in which one transaction without COMMIT or ABORT has
\* an INSERT and a later UPDATE of the same page, next to a transaction that
\* committed a change: the page of the loser holds no tuple.
C39_Witness ==
  /\ rec_pc = "recovered"
  /\ active_txn_ = <<>> /\ lsn_mapping_ = <<>>
  /\ Committed(log_file) # {}
  /\ \E i, j \in 1 .. Len(log_file) :
       /\ i < j
       /\ log_file[i].txn_id = log_file[j].txn_id
       /\ log_file[i].txn_id \in LoserTxns
       /\ log_file[i].log_record_type = "INSERT"
       /\ log_file[j].log_record_type = "UPDATE"
       /\ log_file[i].page_id = log_file[j].page_id
       /\ tp_mem[log_file[i].page_id].tuple = NoTuple

\* C40: when next() has returned false, the hash join has emitted exactly
\* one output tuple for every pair (left tuple, right tuple) that satisfies
\* the join predicate, and nothing else; also when one right tuple matches
\* several left tuples.
C40_JoinEmitsEveryPair ==
  hj.pc = "eof" =>
    /\ \A i \in 1 .. Len(hj.left), j \in 1 .. Len(hj.right) :
         hj.left[i].key = hj.right[j] =>
           Cardinality({n \in 1 .. Len(hj.out) : hj.out[n] = <<i, j>>}) = 1
    /\ \A n \in 1 .. Len(hj.out) :
         hj.left[hj.out[n][1]].key = hj.right[hj.out[n][2]]
====
